---- MODULE Spec2Model ----
(***************************************************************************)
(* saveme-config storage engine: blob payloads, the per-snapshot blob      *)
(* chain with its encrypted sidecar, the deduplicating ingest pipeline of  *)
(* a manifest, and the restore of a single entry.                          *)
(*                                                                         *)
(* Byte strings are TLA+ strings and `\o` is byte concatenation.  SHA-256  *)
(* is the collision-free symbolic digest H(<input>): two digests are equal *)
(* exactly when the hashed byte strings are equal.  Option<T> is a         *)
(* sequence of length 0 (None) or 1 (Some).  A HashMap is a function on   *)
(* the set of its keys.                                                    *)
(***************************************************************************)
EXTENDS Integers, Sequences, FiniteSets, TLC

VARIABLES
    sidecars,    \* sidecar path within storage_dir -> Option<file bytes>
    managers,    \* live BlobChainManager per backup name : Option<metadata>
    chainBlobs,  \* the caller's HashMap<String, BlobPayload> per backup name
    manifests,   \* <storage_dir>/<name>/manifest.json : Option<Manifest>
    blobFiles,   \* <storage_dir>/<name>/blobs/<id>.tar.zst : id -> bytes
    session,     \* the Manifest a running save_config holds : Option<Manifest>
    dests,       \* restore destinations : path -> Option<bytes>
    clock,       \* Utc::now(), a logical clock
    last,        \* the last operation, its inputs and its result
    config,      \* the PerformanceConfig in use
    workers,     \* the threads of a running restore_blobs_batch
    threads,     \* the threads inside Manifest::new : thread -> position
    once,        \* THREAD_POOL_INIT, the state of the std::sync::Once
    pool         \* the builds of the global rayon thread pool, in order

\* the state of the process beside the store
runtimeVars == <<config, workers, threads, once, pool>>

vars == <<sidecars, managers, chainBlobs, manifests, blobFiles, session, dests, clock, last,
          config, workers, threads, once, pool>>

-----------------------------------------------------------------------------
(* Bounds and finite input sets *)

MaxClock == 4
MaxAdds == 3
MaxSaveClock == 4
MaxRestoreClock == 4

BackupNames == {"snap-A", "snap-B"}
SnapshotNames == {"snap-1", "snap-2", "snap-3"}
BlobIds == {"blob1", "blob2", "blob3"}
Payloads == {"data1", "data2"}

None == <<>>
Some(x) == <<x>>
IsSome(o) == o # <<>>
Unwrap(o) == o[1]

EmptyMap == <<>>
MapInsert(m, k, v) == [x \in (DOMAIN m) \cup {k} |-> IF x = k THEN v ELSE m[x]]
MapGet(m, k) == IF k \in DOMAIN m THEN Some(m[k]) ELSE None

-----------------------------------------------------------------------------
(* Primitives: SHA-256 + hex, little-endian u64, base64 *)

SHA256(bytes) == "H(" \o bytes \o ")"

to_le_bytes(n) == "<u64:" \o ToString(n) \o ">"

RECURSIVE ConcatAll(_)
ConcatAll(strs) == IF strs = <<>> THEN "" ELSE Head(strs) \o ConcatAll(Tail(strs))

Base64Encode(data) == "b64[" \o data \o "]"

-----------------------------------------------------------------------------
(* The sources an ingest reads.  Two files of different applications have   *)
(* the same basename, metadata and bytes, so their packaged payloads are    *)
(* byte-identical.                                                          *)

SrcFiles ==
    {[path |-> "/cfg/zed/settings.json", file_name |-> "settings.json", meta |-> "0644",
      data |-> "hello", target_hint |-> "app:zed"],
     [path |-> "/cfg/code/settings.json", file_name |-> "settings.json", meta |-> "0644",
      data |-> "hello", target_hint |-> "app:vscode"],
     [path |-> "/cfg/zed/keymap.json", file_name |-> "keymap.json", meta |-> "0644",
      data |-> "world", target_hint |-> "app:zed"]}

\* a directory and the regular files WalkDir finds under it, in walk order
SrcDirs ==
    {[path |-> "/cfg/zed/themes", target_hint |-> "app:zed",
      files |-> <<[relative_path |-> "a.json", data |-> "li"],
                  [relative_path |-> "b.json", data |-> "dark"]>>]}

DestPaths == {"/cfg/zed/settings.json"}

-----------------------------------------------------------------------------
(* Packager and compressor: tar::Builder, zstd::encode_all and inverses *)

\* one tar member: header (name, metadata, size) and content
TarMember(path, meta, data) == [path |-> path, meta |-> meta, data |-> data]

TarMemberBytes(m) ==
    "{" \o m.path \o "|" \o m.meta \o "|" \o ToString(Len(m.data)) \o "|" \o m.data \o "}"

RECURSIVE TarBytes(_)
TarBytes(members) ==
    IF members = <<>> THEN "" ELSE TarMemberBytes(Head(members)) \o TarBytes(Tail(members))

\* create_blob_from_file: append_path_with_name(src, file_name)
TarOfFile(f) == <<TarMember(f.file_name, f.meta, f.data)>>

\* sort_by_key(Reverse(data.len())): a stable sort, larger files first
RECURSIVE SortBySizeDesc(_)
SortBySizeDesc(files) ==
    IF files = <<>> THEN <<>>
    ELSE LET rest == SortBySizeDesc(Tail(files))
             before == SelectSeq(rest, LAMBDA x : Len(x.data) > Len(Head(files).data))
             after == SelectSeq(rest, LAMBDA x : Len(x.data) <= Len(Head(files).data))
         IN before \o <<Head(files)>> \o after

RECURSIVE MembersOf(_)
MembersOf(files) ==
    IF files = <<>> THEN <<>>
    ELSE <<TarMember(Head(files).relative_path, "0644", Head(files).data)>> \o MembersOf(Tail(files))

\* create_blob_from_directory: files by descending size, mode 0o644
TarOfDirectory(d) == MembersOf(SortBySizeDesc(d.files))

\* every archive the packager can produce from the sources
Archives == {TarOfFile(f) : f \in SrcFiles} \cup {TarOfDirectory(d) : d \in SrcDirs}

\* PerformanceConfig::auto_detect on a host with 5 or more cores
compression_level == 19
adaptive_compression == TRUE

Max(a, b) == IF a > b THEN a ELSE b
Min(a, b) == IF a < b THEN a ELSE b

\* PerformanceConfig::get_available_memory_mb
get_available_memory_mb(cpu_count) ==
    IF cpu_count <= 2 THEN 2048
    ELSE IF cpu_count <= 4 THEN 4096
    ELSE IF cpu_count <= 8 THEN 8192
    ELSE 16384

\* PerformanceConfig::auto_detect on a host with cpu_count cores
auto_detect(cpu_count) ==
    [thread_count |-> IF cpu_count > 4 THEN cpu_count - 1 ELSE cpu_count,
     max_memory_mb |-> Min(Max(get_available_memory_mb(cpu_count) \div 2, 512), 8192),
     compression_level |-> IF cpu_count <= 2 THEN 15
                           ELSE IF cpu_count <= 4 THEN 17 ELSE compression_level,
     io_buffer_size |-> IF cpu_count <= 2 THEN 256 * 1024
                        ELSE IF cpu_count <= 4 THEN 512 * 1024
                        ELSE IF cpu_count <= 8 THEN 1024 * 1024 ELSE 2 * 1024 * 1024,
     chunk_size |-> IF cpu_count <= 2 THEN 1024 * 1024
                    ELSE IF cpu_count <= 4 THEN 2 * 1024 * 1024
                    ELSE IF cpu_count <= 8 THEN 4 * 1024 * 1024 ELSE 8 * 1024 * 1024,
     adaptive_compression |-> adaptive_compression,
     parallel_dedup |-> cpu_count > 2,
     max_batch_size |-> Max(Min(cpu_count * 10, 200), 20)]

\* PerformanceConfig::custom: an option is <<>> or <<value>>
custom(cpu_count, thread_count, max_memory_mb, level) ==
    [auto_detect(cpu_count) EXCEPT
        !.thread_count = IF thread_count # <<>> THEN thread_count[1] ELSE @,
        !.max_memory_mb = IF max_memory_mb # <<>> THEN max_memory_mb[1] ELSE @,
        !.compression_level = IF level # <<>> THEN level[1] ELSE @]

\* PerformanceConfig::fast
fast(cpu_count) ==
    [auto_detect(cpu_count) EXCEPT
        !.compression_level = 6, !.adaptive_compression = TRUE,
        !.parallel_dedup = TRUE, !.max_batch_size = @ * 2]

\* PerformanceConfig::max_compression
max_compression(cpu_count) ==
    [auto_detect(cpu_count) EXCEPT
        !.compression_level = 22, !.adaptive_compression = FALSE,
        !.max_batch_size = @ \div 2]

\* PerformanceConfig::validate: "Ok" or the error
validate(self) ==
    IF self.thread_count = 0 THEN "Err(thread count)"
    ELSE IF self.max_memory_mb < 128 THEN "Err(maximum memory)"
    ELSE IF ~(self.compression_level \in 1..22) THEN "Err(compression level)"
    ELSE IF self.io_buffer_size < 1024 THEN "Err(io buffer size)"
    ELSE IF self.chunk_size < self.io_buffer_size THEN "Err(chunk size)"
    ELSE IF self.max_batch_size = 0 THEN "Err(batch size)"
    ELSE "Ok"

\* PerformanceConfig::get_adaptive_compression_level(&self, file_size)
PerformanceConfig_get_adaptive_compression_level(self, file_size) ==
    IF ~self.adaptive_compression THEN self.compression_level
    ELSE IF file_size <= 1048576 THEN self.compression_level
    ELSE IF file_size <= 10485760 THEN Max(self.compression_level - 2, 6)
    ELSE IF file_size <= 104857600 THEN Max(self.compression_level - 4, 6)
    ELSE 6

\* PERFORMANCE_CONFIG, the configuration of the process: auto_detect on a
\* host with 8 cores
PERFORMANCE_CONFIG == auto_detect(8)

\* PERFORMANCE_CONFIG.get_adaptive_compression_level(file_size)
get_adaptive_compression_level(file_size) ==
    PerformanceConfig_get_adaptive_compression_level(PERFORMANCE_CONFIG, file_size)

\* zstd::encode_all(data, level): a frame that decodes to data
zstd_encode_all(data, level) == "zstd" \o ToString(level) \o "(" \o data \o ")"

ZstdLevels == {6} \cup {compression_level, 15, 19}
                  \cup {l \in {compression_level - 2, compression_level - 4} : l > 6}

\* zstd::stream::decode_all: Some(data), or None when bytes is no frame
zstd_decode_all(bytes) ==
    IF \E a \in Archives, l \in ZstdLevels : zstd_encode_all(TarBytes(a), l) = bytes
    THEN Some(TarBytes(CHOOSE a \in Archives :
                  \E l \in ZstdLevels : zstd_encode_all(TarBytes(a), l) = bytes))
    ELSE None

\* tar::Archive::entries: the members of an archive, <<>> when the bytes
\* hold none
TarEntries(tar_bytes) ==
    IF \E a \in Archives : TarBytes(a) = tar_bytes
    THEN CHOOSE a \in Archives : TarBytes(a) = tar_bytes
    ELSE <<>>

\* Manifest::adaptive_compress (the sources of the model are smaller than
\* chunk_size, so should_use_parallel is false for them)
adaptive_compress(tar_data) ==
    zstd_encode_all(tar_data, get_adaptive_compression_level(Len(tar_data)))

\* create_single_file_blob_optimized: level 15 above 5 MB, else 19
batch_compress(tar_data) ==
    IF Len(tar_data) > 5000000 THEN zstd_encode_all(tar_data, 15)
    ELSE zstd_encode_all(tar_data, 19)

\* every payload an ingest of the sources can produce
CompressedPayloads ==
    {adaptive_compress(TarBytes(TarOfFile(f))) : f \in SrcFiles}
    \cup {batch_compress(TarBytes(TarOfFile(f))) : f \in SrcFiles}
    \cup {adaptive_compress(TarBytes(TarOfDirectory(d))) : d \in SrcDirs}

-----------------------------------------------------------------------------
(* storage/blobs.rs : BlobPayload *)

\* Every byte string a blob payload of the model can hold (the base64 decoder
\* is the inverse of the encoder on these and fails on anything else).
PayloadUniverse == Payloads \cup CompressedPayloads

BlobPayload_new(format, data) ==
    [format |-> format,
     sha256 |-> SHA256(data),
     size |-> Len(data),
     b64 |-> Base64Encode(data),
     previous_blob_hash |-> None,
     blob_chain_hash |-> None]

\* Ok(bytes) as Some(bytes), Err(DecodeError) as None
decode(blob) ==
    IF \E d \in PayloadUniverse : Base64Encode(d) = blob.b64
    THEN Some(CHOOSE d \in PayloadUniverse : Base64Encode(d) = blob.b64)
    ELSE None

set_previous_blob_hash(blob, previous_hash) ==
    [blob EXCEPT !.previous_blob_hash = previous_hash]

calculate_blob_content_hash(blob) ==
    SHA256(blob.format \o blob.sha256 \o to_le_bytes(blob.size) \o blob.b64)

\* SHA256(previous_blob_hash || content hash); the previous hash contributes
\* no bytes when it is None
ChainHashOf(blob) ==
    SHA256((IF IsSome(blob.previous_blob_hash) THEN Unwrap(blob.previous_blob_hash) ELSE "")
           \o calculate_blob_content_hash(blob))

\* faulty variant of finalize_blob_chain_hash: the previous hash is left out
\* of the hash
finalize_blob_chain_hash_withoutPrev(blob) ==
    [blob EXCEPT !.blob_chain_hash = Some(SHA256(calculate_blob_content_hash(blob)))]

finalize_blob_chain_hash(blob) ==
    [blob EXCEPT !.blob_chain_hash = Some(ChainHashOf(blob))]

verify_blob_integrity(blob) ==
    LET expected_chain_hash ==
            SHA256((IF IsSome(blob.previous_blob_hash) THEN Unwrap(blob.previous_blob_hash) ELSE "")
                   \o calculate_blob_content_hash(blob))
    IN IF IsSome(blob.blob_chain_hash)
       THEN Unwrap(blob.blob_chain_hash) = expected_chain_hash
       ELSE FALSE

-----------------------------------------------------------------------------
(* storage/blob_chain.rs : BlobChainMetadata *)

BlobChainMetadata_new(now) ==
    [blob_positions |-> EmptyMap,
     chain_order |-> <<>>,
     blob_chain_hashes |-> EmptyMap,
     chain_integrity_hash |-> "",
     last_updated |-> now]

\* SHA-256 over the blob ids of chain_order, in order
IntegrityHashOf(chain_order) == SHA256(ConcatAll(chain_order))

update_integrity_hash(metadata) ==
    [metadata EXCEPT !.chain_integrity_hash = IntegrityHashOf(metadata.chain_order)]

\* faulty variant of add_blob: the id is put at the head of chain_order
add_blob_atHead(metadata, blob_id, blob_chain_hash, now) ==
    update_integrity_hash(
        [blob_positions |-> MapInsert(metadata.blob_positions, blob_id, Len(metadata.chain_order)),
         chain_order |-> <<blob_id>> \o metadata.chain_order,
         blob_chain_hashes |-> MapInsert(metadata.blob_chain_hashes, blob_id, blob_chain_hash),
         chain_integrity_hash |-> metadata.chain_integrity_hash,
         last_updated |-> now])

add_blob(metadata, blob_id, blob_chain_hash, now) ==
    update_integrity_hash(
        [blob_positions |-> MapInsert(metadata.blob_positions, blob_id, Len(metadata.chain_order)),
         chain_order |-> Append(metadata.chain_order, blob_id),
         blob_chain_hashes |-> MapInsert(metadata.blob_chain_hashes, blob_id, blob_chain_hash),
         chain_integrity_hash |-> metadata.chain_integrity_hash,
         last_updated |-> now])

\* position is 0-based as in the code; chain_order[position - 1] of the code
\* is chain_order[position] here (sequences are 1-based)
get_previous_blob_chain_hash(metadata, position) ==
    IF position = 0
    THEN None
    ELSE MapGet(metadata.blob_chain_hashes, metadata.chain_order[position])

verify_integrity(metadata) ==
    IntegrityHashOf(metadata.chain_order) = metadata.chain_integrity_hash

-----------------------------------------------------------------------------
(* storage/blob_chain.rs : BlobChainManager *)

get_encryption_key ==
    SHA256("saveme_config_blob_chain_master_key" \o "application_specific_salt_2024")

\* AES-256-GCM: the sealed box opens only under the key and nonce it was
\* sealed with
AesGcmSeal(key, nonce, plaintext) == [key |-> key, nonce |-> nonce, plaintext |-> plaintext]

\* the 12 random bytes of a write's nonce: a value no earlier write used
FreshNonce(now) == "nonce" \o ToString(now)

\* faulty variant of encrypt_data: the nonce bytes stored in front of the
\* ciphertext are left zeroed instead of the ones the cipher used
encrypt_data_nonceNotStored(data, nonce) ==
    <<"nonce0", AesGcmSeal(get_encryption_key, nonce, data)>>

\* nonce || ciphertext
encrypt_data(data, nonce) == <<nonce, AesGcmSeal(get_encryption_key, nonce, data)>>

\* Ok(plaintext) as Some, Err as None
decrypt_data(encrypted_data) ==
    IF Len(encrypted_data) < 2
    THEN None
    ELSE LET nonce_bytes == encrypted_data[1]
             ciphertext == encrypted_data[2]
         IN IF ciphertext.key = get_encryption_key /\ ciphertext.nonce = nonce_bytes
            THEN Some(ciphertext.plaintext)
            ELSE None

serde_json_to_string(metadata) == [json |-> "BlobChainMetadata", value |-> metadata]

serde_json_from_str(json_str) ==
    IF json_str.json = "BlobChainMetadata" THEN Some(json_str.value) ELSE None

\* faulty variant of get_metadata_path: the file name lacks the backup name
get_metadata_path_noName(backup_name) == "blob_chain.encrypted"

\* the sidecar file of a backup name, within storage_dir
get_metadata_path(backup_name) == backup_name \o "_blob_chain.encrypted"

SidecarPaths == {get_metadata_path(n) : n \in BackupNames}

\* the bytes save_metadata writes to <backup_name>_blob_chain.encrypted
save_metadata(metadata, nonce) == Some(encrypt_data(serde_json_to_string(metadata), nonce))

\* file is the content of the sidecar path, None when it does not exist;
\* the result is Some(metadata), or None for every Err of load_metadata
load_metadata(file) ==
    IF ~IsSome(file)
    THEN None
    ELSE LET decrypted_data == decrypt_data(Unwrap(file))
         IN IF IsSome(decrypted_data) THEN serde_json_from_str(Unwrap(decrypted_data)) ELSE None

\* the metadata of the manager BlobChainManager::new returns
BlobChainManager_new(file, now) ==
    IF IsSome(load_metadata(file))
    THEN Unwrap(load_metadata(file))
    ELSE BlobChainMetadata_new(now)

\* the blob as add_blob_to_chain leaves it: the caller's previous hash is
\* replaced by the chain hash of the current tail, then the blob is finalized
ChainedBlob(metadata, blob) ==
    finalize_blob_chain_hash(
        set_previous_blob_hash(blob,
            get_previous_blob_chain_hash(metadata, Len(metadata.chain_order))))

\* the in-memory effect of add_blob_to_chain (save_metadata follows in the action)
add_blob_to_chain(metadata, blob_id, blob, now) ==
    [metadata |-> add_blob(metadata, blob_id,
                           Unwrap(ChainedBlob(metadata, blob).blob_chain_hash), now),
     blob |-> ChainedBlob(metadata, blob)]

\* the blob verify_blob_chain rebuilds for position i (0-based) from the
\* decoded payload (empty when base64 does not decode) and the expected
\* previous hash
expected_blob(metadata, blob, i) ==
    finalize_blob_chain_hash(
        set_previous_blob_hash(
            BlobPayload_new(blob.format, IF IsSome(decode(blob)) THEN Unwrap(decode(blob)) ELSE ""),
            get_previous_blob_chain_hash(metadata, i)))

\* faulty variant of the loop: the blob's stored hashes are compared with the
\* sidecar, nothing is recomputed from the payload
RECURSIVE VerifyChainFrom_storedHashesOnly(_, _, _)
VerifyChainFrom_storedHashesOnly(metadata, blobs, i) ==
    IF i >= Len(metadata.chain_order)
    THEN "Ok(true)"
    ELSE LET blob_id == metadata.chain_order[i + 1]
         IN IF blob_id \notin DOMAIN blobs
            THEN "Err"
            ELSE IF blobs[blob_id].previous_blob_hash # get_previous_blob_chain_hash(metadata, i)
                 THEN "Ok(false)"
            ELSE IF MapGet(metadata.blob_chain_hashes, blob_id) # blobs[blob_id].blob_chain_hash
                 THEN "Ok(false)"
            ELSE VerifyChainFrom_storedHashesOnly(metadata, blobs, i + 1)

\* faulty variant of the loop: the previous hash of a blob is not compared
\* with the expected one
RECURSIVE VerifyChainFrom_noPrevCheck(_, _, _)
VerifyChainFrom_noPrevCheck(metadata, blobs, i) ==
    IF i >= Len(metadata.chain_order)
    THEN "Ok(true)"
    ELSE LET blob_id == metadata.chain_order[i + 1]
         IN IF blob_id \notin DOMAIN blobs
            THEN "Err"
            ELSE LET blob == blobs[blob_id]
                     expected_chain_hash == Unwrap(expected_blob(metadata, blob, i).blob_chain_hash)
                 IN IF ~verify_blob_integrity(blob) THEN "Ok(false)"
                    ELSE IF blob.blob_chain_hash # Some(expected_chain_hash) THEN "Ok(false)"
                    ELSE IF MapGet(metadata.blob_chain_hashes, blob_id) # Some(expected_chain_hash)
                         THEN "Ok(false)"
                    ELSE VerifyChainFrom_noPrevCheck(metadata, blobs, i + 1)

\* the per-blob loop of verify_blob_chain from 0-based position i on
RECURSIVE VerifyChainFrom(_, _, _)
VerifyChainFrom(metadata, blobs, i) ==
    IF i >= Len(metadata.chain_order)
    THEN "Ok(true)"
    ELSE LET blob_id == metadata.chain_order[i + 1]
         IN IF blob_id \notin DOMAIN blobs
            THEN "Err"
            ELSE LET blob == blobs[blob_id]
                     expected_prev_hash == get_previous_blob_chain_hash(metadata, i)
                     expected_chain_hash == Unwrap(expected_blob(metadata, blob, i).blob_chain_hash)
                 IN IF ~verify_blob_integrity(blob) THEN "Ok(false)"
                    ELSE IF blob.previous_blob_hash # expected_prev_hash THEN "Ok(false)"
                    ELSE IF blob.blob_chain_hash # Some(expected_chain_hash) THEN "Ok(false)"
                    ELSE IF MapGet(metadata.blob_chain_hashes, blob_id) # Some(expected_chain_hash)
                         THEN "Ok(false)"
                    ELSE VerifyChainFrom(metadata, blobs, i + 1)

\* faulty variant of verify_blob_chain: the loop runs without the check that
\* every blob id of chain_order is in the map
verify_blob_chain_noPresenceCheck(metadata, blobs) ==
    IF ~verify_integrity(metadata) THEN "Ok(false)"
    ELSE VerifyChainFrom(metadata, blobs, 0)

verify_blob_chain(metadata, blobs) ==
    IF ~verify_integrity(metadata) THEN "Ok(false)"
    ELSE IF \E i \in 1..Len(metadata.chain_order) : metadata.chain_order[i] \notin DOMAIN blobs
         THEN "Ok(false)"
    ELSE VerifyChainFrom(metadata, blobs, 0)

-----------------------------------------------------------------------------
(* storage/manifest.rs, storage/entry.rs : Manifest and Entry *)

Entry(target_hint, logical_path, blob_id, tar_member) ==
    [target_hint |-> target_hint, logical_path |-> logical_path,
     blob_id |-> blob_id, tar_member |-> tar_member]

\* previous_backup_hash and backup_chain_hash are the two snapshot-chain
\* fields of the manifest JSON that lib.rs reads (get_backup_chain_info)
Manifest_new(name, created_at, os_source) ==
    [name |-> name, created_at |-> created_at, os_source |-> os_source,
     entries |-> <<>>, blobs |-> EmptyMap,
     previous_backup_hash |-> None, backup_chain_hash |-> None]

\* faulty variant of manifest_to_json: previous_backup_hash is not written
manifest_to_json_unlinked(manifest) ==
    [json |-> "Manifest", value |-> [manifest EXCEPT !.previous_backup_hash = None]]

\* Manifest::save: the text written to <name>/manifest.json
manifest_to_json(manifest) == [json |-> "Manifest", value |-> manifest]

\* Manifest::load_from: file is the content of <name>/manifest.json, None
\* when it does not exist; ingest_blobs_dir adds nothing to the manifest
load_from(file) ==
    IF IsSome(file) /\ Unwrap(file).json = "Manifest" THEN Some(Unwrap(file).value) ELSE None

\* the blob ids of a manifest whose blob has the given content hash
find_existing_blob_by_content(manifest, content_hash) ==
    {blob_id \in DOMAIN manifest.blobs : manifest.blobs[blob_id].sha256 = content_hash}

\* the blob ids find_existing_blob_across_backups can return for the hash:
\* those found in the manifest.json of any backup directory
ExistingBlobsAcrossBackups(content_hash) ==
    UNION {find_existing_blob_by_content(Unwrap(load_from(manifests[n])), content_hash) :
              n \in {b \in DOMAIN manifests : IsSome(load_from(manifests[b]))}}

\* Some(existing_blob_id) of the first match, None without a match (every
\* match carries the same blob id: see DedupHitIsUnique)
find_existing_blob_across_backups(content_hash) ==
    IF ExistingBlobsAcrossBackups(content_hash) = {}
    THEN None
    ELSE Some(CHOOSE blob_id \in ExistingBlobsAcrossBackups(content_hash) : TRUE)

\* What an ingest works on: the manifest in memory, the sidecar file of its
\* name and the files of its blobs directory.
\* The tail shared by create_blob_from_file, create_blob_from_directory and
\* create_single_file_blob_optimized once the payload is packed and
\* compressed: dedup lookup, blob file, blob chain, manifest.
\* The part of the tail that runs without a dedup hit: blob file, blob
\* chain, blob and entry into the manifest.
IngestNewBlob(w, compressed, logical_path, target_hint, tar_member, now) ==
    LET id == SHA256(compressed)
        blob == BlobPayload_new("tar.zst", compressed)
        chain_info == BlobChainManager_new(w.sidecar, now)
        linked == IF chain_info.chain_order # <<>>
                  THEN set_previous_blob_hash(blob,
                           Some(chain_info.chain_order[Len(chain_info.chain_order)]))
                  ELSE blob
        r == add_blob_to_chain(chain_info, id, linked, now)
    IN [manifest |->
            [w.manifest EXCEPT
                !.blobs = MapInsert(@, id, r.blob),
                !.entries = Append(@, Entry(target_hint, logical_path, id, tar_member))],
        sidecar |-> save_metadata(r.metadata, FreshNonce(now)),
        files |-> IF id \in DOMAIN w.files THEN w.files
                  ELSE MapInsert(w.files, id, compressed)]

\* faulty variant of IngestCompressed: the result of the dedup lookup is
\* ignored
IngestCompressed_ignoresHit(w, compressed, logical_path, target_hint, tar_member, existing, now) ==
    IngestNewBlob(w, compressed, logical_path, target_hint, tar_member, now)

IngestCompressed(w, compressed, logical_path, target_hint, tar_member, existing, now) ==
    IF IsSome(existing)
    THEN [w EXCEPT !.manifest.entries =
              Append(@, Entry(target_hint, logical_path, Unwrap(existing), tar_member))]
    ELSE IngestNewBlob(w, compressed, logical_path, target_hint, tar_member, now)

create_blob_from_file(w, f, existing, now) ==
    IngestCompressed(w, adaptive_compress(TarBytes(TarOfFile(f))),
                     f.path, f.target_hint, Some(f.file_name), existing, now)

create_blob_from_directory(w, d, existing, now) ==
    IngestCompressed(w, adaptive_compress(TarBytes(TarOfDirectory(d))),
                     d.path, d.target_hint, None, existing, now)

create_single_file_blob_optimized(w, f, existing, now) ==
    IngestCompressed(w, batch_compress(TarBytes(TarOfFile(f))),
                     f.path, f.target_hint, Some(f.file_name), existing, now)

\* the member restore_blob_to extracts: the first one whose path is the name
FindMember(members, member_name) ==
    IF \E i \in 1..Len(members) : members[i].path = member_name
    THEN Some(members[CHOOSE i \in 1..Len(members) :
                  /\ members[i].path = member_name
                  /\ \A j \in 1..(i - 1) : members[j].path # member_name])
    ELSE None

\* faulty variant of restore_blob_to: the member is written into dest itself,
\* which is created before the blob is looked up
restore_blob_to_inPlace(manifest, entry, dest_before) ==
    LET blob == MapGet(manifest.blobs, entry.blob_id)
        Failed(why) == [result |-> why, dest |-> Some("")]
    IN IF ~IsSome(blob) THEN Failed("Err(blob_id not in manifest)")
       ELSE IF ~IsSome(decode(Unwrap(blob))) THEN Failed("Err(base64)")
       ELSE IF Unwrap(blob).format \notin {"tar", "tar.zst"} THEN Failed("Err(unknown format)")
       ELSE IF Unwrap(blob).format = "tar.zst"
                   /\ ~IsSome(zstd_decode_all(Unwrap(decode(Unwrap(blob)))))
       THEN Failed("Err(zstd)")
       ELSE IF ~IsSome(entry.tar_member) THEN Failed("Err(tar_member required)")
       ELSE LET raw == Unwrap(decode(Unwrap(blob)))
                tar_bytes == IF Unwrap(blob).format = "tar" THEN raw
                             ELSE Unwrap(zstd_decode_all(raw))
                f == FindMember(TarEntries(tar_bytes), Unwrap(entry.tar_member))
            IN IF IsSome(f) THEN [result |-> "Ok", dest |-> Some(Unwrap(f).data)]
               ELSE Failed("Err(member not found)")

\* restore_blob_to(entry, dest): the result and the content of dest after
\* the call, given its content before
restore_blob_to(manifest, entry, dest_before) ==
    LET blob == MapGet(manifest.blobs, entry.blob_id)
        Failed(why) == [result |-> why, dest |-> dest_before]
    IN IF ~IsSome(blob) THEN Failed("Err(blob_id not in manifest)")
       ELSE IF ~IsSome(decode(Unwrap(blob))) THEN Failed("Err(base64)")
       ELSE LET raw == Unwrap(decode(Unwrap(blob)))
                format == Unwrap(blob).format
            IN IF format \notin {"tar", "tar.zst"} THEN Failed("Err(unknown format)")
               ELSE IF format = "tar.zst" /\ ~IsSome(zstd_decode_all(raw)) THEN Failed("Err(zstd)")
               ELSE LET tar_bytes == IF format = "tar" THEN raw ELSE Unwrap(zstd_decode_all(raw))
                    IN IF ~IsSome(entry.tar_member) THEN Failed("Err(tar_member required)")
                       ELSE LET f == FindMember(TarEntries(tar_bytes), Unwrap(entry.tar_member))
                            IN IF IsSome(f)
                               THEN [result |-> "Ok", dest |-> Some(Unwrap(f).data)]
                               ELSE Failed("Err(member not found)")

-----------------------------------------------------------------------------
(* The snapshot chain: the Manifest methods lib.rs calls in save_config,   *)
(* verify_backup_integrity, verify_backup_chain and get_backup_chain_info  *)

RECURSIVE SetToSeq(_)
SetToSeq(S) ==
    IF S = {} THEN <<>>
    ELSE LET x == CHOOSE x \in S : TRUE IN <<x>> \o SetToSeq(S \ {x})

\* the ascending order of the blob ids (hex digests), a fixed total order
BlobIdOrder == SetToSeq({SHA256(c) : c \in CompressedPayloads} \cup BlobIds)

\* the entries in ascending blob_id order (a stable sort), from rank r on
RECURSIVE EntriesSortedFrom(_, _)
EntriesSortedFrom(entries, r) ==
    IF r > Len(BlobIdOrder) THEN <<>>
    ELSE SelectSeq(entries, LAMBDA e : e.blob_id = BlobIdOrder[r])
             \o EntriesSortedFrom(entries, r + 1)

\* the blob ids of the map in ascending order
BlobIdsSorted(blobs) == SelectSeq(BlobIdOrder, LAMBDA id : id \in DOMAIN blobs)

EntryCanonical(e) ==
    e.blob_id \o e.target_hint \o e.logical_path
        \o (IF IsSome(e.tar_member) THEN Unwrap(e.tar_member) ELSE "")

BlobCanonical(blob_id, blob) ==
    blob_id \o blob.format \o blob.sha256 \o to_le_bytes(blob.size)

\* created_at as the text the manifest holds
to_rfc3339(t) == "T" \o ToString(t)

\* H_b: the canonical hash of the snapshot
calculate_backup_hash(manifest) ==
    LET entries == EntriesSortedFrom(manifest.entries, 1)
        ids == BlobIdsSorted(manifest.blobs)
    IN SHA256(manifest.name \o to_rfc3339(manifest.created_at) \o manifest.os_source
              \o ConcatAll([i \in 1..Len(entries) |-> EntryCanonical(entries[i])])
              \o ConcatAll([i \in 1..Len(ids) |-> BlobCanonical(ids[i], manifest.blobs[ids[i]])]))

\* H_c = SHA256(previous_backup_hash || H_b), the left term absent for genesis
calculate_chain_hash(manifest) ==
    SHA256((IF IsSome(manifest.previous_backup_hash)
            THEN Unwrap(manifest.previous_backup_hash) ELSE "")
           \o calculate_backup_hash(manifest))

\* the names of the given set by created_at ascending
RECURSIVE SortByCreatedAt(_, _)
SortByCreatedAt(names, store) ==
    IF names = {} THEN <<>>
    ELSE LET first == CHOOSE n \in names : \A m \in names :
                          Unwrap(load_from(store[n])).created_at
                              <= Unwrap(load_from(store[m])).created_at
         IN <<first>> \o SortByCreatedAt(names \ {first}, store)

\* Manifest::list_all_backups_sorted: the snapshot names of the store
list_all_backups_sorted(store) ==
    SortByCreatedAt({n \in DOMAIN store : IsSome(load_from(store[n]))}, store)

\* manifest.set_previous_backup(previous_name): adopt its backup_chain_hash
set_previous_backup(manifest, previous_name, store) ==
    [manifest EXCEPT !.previous_backup_hash =
         Unwrap(load_from(store[previous_name])).backup_chain_hash]

\* FinalizeChainHash, the first step of Manifest::save
FinalizeChainHash(manifest, store) ==
    LET existing == list_all_backups_sorted(store)
        linked == IF /\ ~IsSome(manifest.previous_backup_hash)
                     /\ existing # <<>>
                     /\ existing[Len(existing)] # manifest.name
                  THEN set_previous_backup(manifest, existing[Len(existing)], store)
                  ELSE manifest
    IN [linked EXCEPT !.backup_chain_hash = Some(calculate_chain_hash(linked))]

\* manifest.verify_backup_integrity()
verify_backup_integrity(manifest) ==
    manifest.backup_chain_hash = Some(calculate_chain_hash(manifest))

\* the stored snapshots whose backup_chain_hash is the given hash
find_backup_by_chain_hash(store, hash) ==
    {n \in DOMAIN store :
        /\ IsSome(load_from(store[n]))
        /\ Unwrap(load_from(store[n])).backup_chain_hash = Some(hash)}

\* faulty variant of ChainWalk: an unresolved previous_backup_hash ends
\* the walk like a genesis snapshot
RECURSIVE ChainWalk_unresolvedIsGenesis(_, _, _)
ChainWalk_unresolvedIsGenesis(store, current, visited) ==
    LET seen == Append(visited, current)
        manifest == Unwrap(load_from(store[current]))
        Done(r) == {[result |-> r, visited |-> seen]}
    IN IF \E i \in 1..Len(visited) : visited[i] = current
       THEN {[result |-> "Err(CycleError)", visited |-> visited]}
       ELSE IF ~verify_backup_integrity(manifest) THEN Done("Ok(false)")
       ELSE IF ~IsSome(manifest.previous_backup_hash) THEN Done("Ok(true)")
       ELSE IF find_backup_by_chain_hash(store, Unwrap(manifest.previous_backup_hash)) = {}
            THEN Done("Ok(true)")
       ELSE UNION {ChainWalk_unresolvedIsGenesis(store, previous, seen) :
                       previous \in find_backup_by_chain_hash(
                                        store, Unwrap(manifest.previous_backup_hash))}

\* The walk of verify_chain_from from the snapshot current, visited the
\* names walked so far: every outcome it can have (the search may meet the
\* stored manifests in any order), each with the names it has visited.
RECURSIVE ChainWalk(_, _, _)
ChainWalk(store, current, visited) ==
    LET seen == Append(visited, current)
        manifest == Unwrap(load_from(store[current]))
        Done(r) == {[result |-> r, visited |-> seen]}
    IN IF \E i \in 1..Len(visited) : visited[i] = current
       THEN {[result |-> "Err(CycleError)", visited |-> visited]}
       ELSE IF ~verify_backup_integrity(manifest) THEN Done("Ok(false)")
       ELSE IF ~IsSome(manifest.previous_backup_hash) THEN Done("Ok(true)")
       ELSE IF find_backup_by_chain_hash(store, Unwrap(manifest.previous_backup_hash)) = {}
            THEN Done("Err(BrokenChain)")
       ELSE UNION {ChainWalk(store, previous, seen) :
                       previous \in find_backup_by_chain_hash(
                                        store, Unwrap(manifest.previous_backup_hash))}

\* manifest.verify_chain_from(start_backup_name)
verify_chain_from(store, start_backup_name) == ChainWalk(store, start_backup_name, <<>>)

\* faulty variant of LinkPreviousBackup: the oldest snapshot is referenced
LinkPreviousBackup_toOldest(manifest, store) ==
    LET existing_backups == list_all_backups_sorted(store)
    IN IF existing_backups # <<>> /\ existing_backups[1] # manifest.name
       THEN set_previous_backup(manifest, existing_backups[1], store)
       ELSE manifest

\* save_config after the ingests: reference the last existing backup unless
\* it is the backup being saved
LinkPreviousBackup(manifest, store) ==
    LET existing_backups == list_all_backups_sorted(store)
        last_backup == existing_backups[Len(existing_backups)]
    IN IF existing_backups # <<>> /\ last_backup # manifest.name
       THEN set_previous_backup(manifest, last_backup, store)
       ELSE manifest

\* the store after manifest.save(): the chain hash is finalized, then
\* manifest.json of the backup is written
Manifest_save(manifest, store) ==
    [store EXCEPT ![manifest.name] =
         Some(manifest_to_json(FinalizeChainHash(manifest, store)))]

-----------------------------------------------------------------------------
(* Direct use of BlobChainManager, as storage/blob_chain.rs tests and       *)
(* storage/integration_tests.rs drive it: managers are opened on a backup  *)
(* name, blobs are added, and the caller keeps the blobs in its own map.   *)

NoLast == [op |-> "none", name |-> "", id |-> "", result |-> "", hits |-> 0, path |-> "", dest |-> "",
           events |-> <<>>, args |-> <<>>]

\* a fresh process: the configuration is detected, no restore batch runs, no
\* thread is inside Manifest::new and the thread pool is not built
InitRuntime ==
    /\ config = PERFORMANCE_CONFIG
    /\ workers = <<>>
    /\ threads = <<>>
    /\ once = "INCOMPLETE"
    /\ pool = <<>>

\* the global rayon pool exists
PoolBuilt == \E i \in DOMAIN pool : pool[i].result = "Ok"

\* Manifest::init_thread_pool() while no other thread is inside it: the first
\* call runs the closure of THREAD_POOL_INIT.call_once, which builds the
\* global pool; a later call returns at once
init_thread_pool ==
    /\ threads = <<>>
    /\ once \in {"INCOMPLETE", "COMPLETE"}
    /\ once = "INCOMPLETE" => ~PoolBuilt
    /\ once' = "COMPLETE"
    /\ pool' = IF once = "INCOMPLETE"
               THEN Append(pool, [by |-> "build_global", num_threads |-> config.thread_count,
                                  result |-> "Ok"])
               ELSE pool

InitDisk ==
    /\ sidecars = [p \in SidecarPaths |-> None]
    /\ manifests = [n \in BackupNames |-> None]
    /\ blobFiles = [n \in BackupNames |-> EmptyMap]

InitChain ==
    /\ InitDisk
    /\ managers = [n \in BackupNames |-> None]
    /\ chainBlobs = [n \in BackupNames |-> EmptyMap]
    /\ session = None
    /\ dests = [p \in DestPaths |-> None]
    /\ clock = 0
    /\ last = NoLast
    /\ InitRuntime

\* BlobChainManager::new(storage_dir, backup_name)
ManagerNew(name) ==
    /\ managers' = [managers EXCEPT ![name] = Some(BlobChainManager_new(sidecars[get_metadata_path(name)], clock))]
    /\ last' = [NoLast EXCEPT !.op = "BlobChainManager::new", !.name = name,
                  !.result = IF IsSome(load_metadata(sidecars[get_metadata_path(name)])) THEN "loaded" ELSE "fresh"]
    /\ UNCHANGED <<runtimeVars, sidecars, chainBlobs, manifests, blobFiles, session, dests, clock>>

\* manager.add_blob_to_chain(blob_id, &mut blob) on a blob the caller built
\* with BlobPayload::new and on which it may have set a previous hash; the
\* caller then puts the blob into its map under blob_id
AddBlobToChain(name, blob_id, data, caller_prev) ==
    /\ IsSome(managers[name])
    /\ clock < MaxAdds
    /\ LET blob == set_previous_blob_hash(BlobPayload_new("tar.zst", data), caller_prev)
           r == add_blob_to_chain(Unwrap(managers[name]), blob_id, blob, clock + 1)
       IN /\ managers' = [managers EXCEPT ![name] = Some(r.metadata)]
          /\ sidecars' = [sidecars EXCEPT ![get_metadata_path(name)] = save_metadata(r.metadata, FreshNonce(clock + 1))]
          /\ chainBlobs' = [chainBlobs EXCEPT ![name] = MapInsert(@, blob_id, r.blob)]
    /\ clock' = clock + 1
    /\ last' = [NoLast EXCEPT !.op = "add_blob_to_chain", !.name = name, !.id = blob_id,
                  !.result = "Ok"]
    /\ UNCHANGED <<runtimeVars, manifests, blobFiles, session, dests>>

CallerPrevs == {None, Some("wrong_previous_hash")}

NextChain ==
    \/ \E name \in BackupNames : ManagerNew(name)
    \/ \E name \in BackupNames, blob_id \in BlobIds, data \in Payloads,
          caller_prev \in CallerPrevs :
            AddBlobToChain(name, blob_id, data, caller_prev)

SpecChain == InitChain /\ [][NextChain]_vars

-----------------------------------------------------------------------------
(* Claims about the blob chain manager, checked under SpecChain *)

Distinct(seq) == \A i, j \in 1..Len(seq) : i # j => seq[i] # seq[j]

ChainOf(name) == Unwrap(managers[name]).chain_order

\* C3: for any sequence of add_blob_to_chain calls with pairwise distinct
\* blob ids on a manager, verify_blob_chain on the map holding exactly those
\* blobs, as add_blob_to_chain left them, returns Ok(true).
C3_DistinctChainVerifies ==
    \A name \in BackupNames :
        (/\ IsSome(managers[name])
         /\ Distinct(ChainOf(name)))
        => verify_blob_chain(Unwrap(managers[name]), chainBlobs[name]) = "Ok(true)"

\* what does hold: a chain of at least one blob, of pairwise distinct ids,
\* verifies
NonEmptyDistinctChainVerifies ==
    \A name \in BackupNames :
        (/\ IsSome(managers[name])
         /\ Len(ChainOf(name)) > 0
         /\ Distinct(ChainOf(name)))
        => verify_blob_chain(Unwrap(managers[name]), chainBlobs[name]) = "Ok(true)"

\* C5: after any sequence of add_blob_to_chain calls, the blob at
\* chain_order[i], i > 0, has previous_blob_hash equal to
\* blob_chain_hashes[chain_order[i-1]], and the blob at index 0 has none.
C5_PreviousHashLinks ==
    \A name \in BackupNames :
        IsSome(managers[name]) =>
            \A i \in 1..Len(ChainOf(name)) :
                LET blob == chainBlobs[name][ChainOf(name)[i]]
                IN blob.previous_blob_hash =
                       IF i = 1 THEN None
                       ELSE Some(Unwrap(managers[name]).blob_chain_hashes[ChainOf(name)[i - 1]])

\* the maps that lack at least one blob id listed in chain_order
MapsMissingAChainedBlob(name) ==
    {[id \in keys |-> chainBlobs[name][id]] :
        keys \in {k \in SUBSET (DOMAIN chainBlobs[name]) :
                    \E i \in 1..Len(ChainOf(name)) : ChainOf(name)[i] \notin k}}

\* C6: verify_blob_chain returns Ok(false), not an error, whenever some blob
\* id listed in chain_order is absent from the blobs map it is given.
C6_MissingBlobIsFalse ==
    \A name \in BackupNames :
        IsSome(managers[name]) =>
            \A blobs \in MapsMissingAChainedBlob(name) :
                verify_blob_chain(Unwrap(managers[name]), blobs) = "Ok(false)"

\* a chain of three whose second blob is taken out of a map that verified
C6_Witness ==
    \E name \in BackupNames :
        /\ IsSome(managers[name])
        /\ Len(ChainOf(name)) = 3
        /\ verify_blob_chain(Unwrap(managers[name]), chainBlobs[name]) = "Ok(true)"
        /\ \E blobs \in MapsMissingAChainedBlob(name) :
               /\ ChainOf(name)[2] \notin DOMAIN blobs
               /\ ChainOf(name)[1] \in DOMAIN blobs
               /\ verify_blob_chain(Unwrap(managers[name]), blobs) = "Ok(false)"

\* previous hashes an attacker may give a blob before finalizing it again
WrongPrevs(name) ==
    {None, Some(""), Some("wrong_previous_hash")}
    \cup {Some(id) : id \in DOMAIN chainBlobs[name]}
    \cup {chainBlobs[name][id].blob_chain_hash : id \in DOMAIN chainBlobs[name]}

Refinalized(blob, prev) == finalize_blob_chain_hash(set_previous_blob_hash(blob, prev))

\* C7: verify_blob_chain returns false when a chained blob's
\* previous_blob_hash differs from the sidecar's expected prior hash for its
\* position, even when the blob was finalized again on the wrong hash.
C7_WrongPreviousHashIsFalse ==
    \A name \in BackupNames :
        IsSome(managers[name]) =>
            \A i \in 1..Len(ChainOf(name)) : \A prev \in WrongPrevs(name) :
                prev # get_previous_blob_chain_hash(Unwrap(managers[name]), i - 1)
                => verify_blob_chain(
                       Unwrap(managers[name]),
                       [chainBlobs[name] EXCEPT
                           ![ChainOf(name)[i]] = Refinalized(@, prev)]) = "Ok(false)"

\* a verified chain of three whose second blob is re-finalized on a wrong hash
C7_Witness ==
    \E name \in BackupNames :
        /\ IsSome(managers[name])
        /\ Len(ChainOf(name)) = 3
        /\ verify_blob_chain(Unwrap(managers[name]), chainBlobs[name]) = "Ok(true)"
        /\ LET wrong == Refinalized(chainBlobs[name][ChainOf(name)[2]], Some("wrong_previous_hash"))
           IN /\ verify_blob_integrity(wrong)
              /\ verify_blob_chain(
                     Unwrap(managers[name]),
                     [chainBlobs[name] EXCEPT ![ChainOf(name)[2]] = wrong]) = "Ok(false)"

\* C10: in every state of a snapshot's sidecar metadata (fresh with an empty
\* chain, after each add_blob, after reloading from disk) verify_integrity
\* is true.
C10_IntegrityHashCurrent ==
    \A name \in BackupNames :
        IsSome(managers[name]) => verify_integrity(Unwrap(managers[name]))

-----------------------------------------------------------------------------
(* The store: save_config sessions that ingest into a manifest and save it, *)
(* and restores of entries of saved manifests (lib.rs, storage/manifest.rs) *)

Init ==
    /\ InitDisk
    /\ managers = [n \in BackupNames |-> None]
    /\ chainBlobs = [n \in BackupNames |-> EmptyMap]
    /\ session = None
    /\ dests = [p \in DestPaths |-> None]
    /\ clock = 0
    /\ last = NoLast
    /\ InitRuntime

World == [manifest |-> Unwrap(session),
          sidecar |-> sidecars[get_metadata_path(Unwrap(session).name)],
          files |-> blobFiles[Unwrap(session).name]]

\* the state after an ingest of the running session left the world w
Ingested(w) ==
    /\ session' = Some(w.manifest)
    /\ sidecars' = [sidecars EXCEPT ![get_metadata_path(w.manifest.name)] = w.sidecar]
    /\ blobFiles' = [blobFiles EXCEPT ![w.manifest.name] = w.files]

IngestResult(op, w, existing) ==
    [NoLast EXCEPT !.op = op, !.name = w.manifest.name,
                   !.id = w.manifest.entries[Len(w.manifest.entries)].blob_id,
                   !.path = w.manifest.entries[Len(w.manifest.entries)].logical_path,
                   !.result = "Ok", !.hits = IF IsSome(existing) THEN 1 ELSE 0]

\* save_config up to the first ingest: Manifest::new(name, Utc::now(), platform())
SaveConfigBegin(name) ==
    /\ session = None
    /\ clock < MaxClock
    /\ clock' = clock + 1
    /\ session' = Some(Manifest_new(name, clock + 1, "linux"))
    /\ last' = [NoLast EXCEPT !.op = "Manifest::new", !.name = name, !.result = "Ok"]
    /\ init_thread_pool
    /\ UNCHANGED <<config, workers, threads, sidecars, managers, chainBlobs, manifests, blobFiles, dests>>

\* manifest.create_blob_from_file(&path, target_hint)
CreateBlobFromFile(f) ==
    /\ IsSome(session)
    /\ clock < MaxClock
    /\ clock' = clock + 1
    /\ LET existing == find_existing_blob_across_backups(
                           SHA256(adaptive_compress(TarBytes(TarOfFile(f)))))
           w == create_blob_from_file(World, f, existing, clock + 1)
       IN /\ Ingested(w)
          /\ last' = IngestResult("create_blob_from_file", w, existing)
    /\ UNCHANGED <<runtimeVars, managers, chainBlobs, manifests, dests>>

\* manifest.create_blob_from_directory(&path, target_hint)
CreateBlobFromDirectory(d) ==
    /\ IsSome(session)
    /\ clock < MaxClock
    /\ clock' = clock + 1
    /\ LET existing == find_existing_blob_across_backups(
                           SHA256(adaptive_compress(TarBytes(TarOfDirectory(d)))))
           w == create_blob_from_directory(World, d, existing, clock + 1)
       IN /\ Ingested(w)
          /\ last' = IngestResult("create_blob_from_directory", w, existing)
    /\ UNCHANGED <<runtimeVars, managers, chainBlobs, manifests, dests>>

\* the loop of create_blobs_from_files_batch over file_paths
RECURSIVE BatchIngest(_, _, _)
BatchIngest(w, file_paths, now) ==
    IF file_paths = <<>> THEN w
    ELSE BatchIngest(
             create_single_file_blob_optimized(
                 w, Head(file_paths),
                 find_existing_blob_across_backups(
                     SHA256(batch_compress(TarBytes(TarOfFile(Head(file_paths)))))),
                 now),
             Tail(file_paths), now + 1)

BatchInputs == {<<f>> : f \in SrcFiles} \cup {<<f, g>> : f \in SrcFiles, g \in SrcFiles}

\* manifest.create_blobs_from_files_batch(file_paths)
CreateBlobsFromFilesBatch(file_paths) ==
    /\ IsSome(session)
    /\ clock + Len(file_paths) <= MaxClock
    /\ clock' = clock + Len(file_paths)
    /\ LET w == BatchIngest(World, file_paths, clock + 1)
       IN /\ Ingested(w)
          /\ last' = [NoLast EXCEPT
                 !.op = "create_blobs_from_files_batch", !.name = w.manifest.name,
                 !.id = w.manifest.entries[Len(w.manifest.entries)].blob_id,
                 !.path = w.manifest.entries[Len(w.manifest.entries)].logical_path,
                 !.result = "Ok",
                 !.hits = Cardinality({i \in 1..Len(file_paths) :
                              IsSome(find_existing_blob_across_backups(
                                  SHA256(batch_compress(TarBytes(TarOfFile(file_paths[i]))))))})]
    /\ UNCHANGED <<runtimeVars, managers, chainBlobs, manifests, dests>>

\* save_config after the last ingest: the link to the previous backup,
\* ingest_blobs_dir, manifest.save()
SaveConfigFinish ==
    /\ IsSome(session)
    /\ manifests' = Manifest_save(LinkPreviousBackup(Unwrap(session), manifests), manifests)
    /\ session' = None
    /\ last' = [NoLast EXCEPT !.op = "save_config", !.name = Unwrap(session).name, !.result = "Ok"]
    /\ UNCHANGED <<runtimeVars, sidecars, managers, chainBlobs, blobFiles, dests, clock>>

\* faulty variant of SaveConfigFails: the manifest held so far is saved
SaveConfigFails_writesManifest ==
    /\ IsSome(session)
    /\ manifests' = Manifest_save(Unwrap(session), manifests)
    /\ session' = None
    /\ last' = [NoLast EXCEPT !.op = "save_config", !.name = Unwrap(session).name, !.result = "Err"]
    /\ UNCHANGED <<runtimeVars, sidecars, managers, chainBlobs, blobFiles, dests, clock>>

\* save_config returns the error of an ingest (an unreadable source, an I/O
\* failure): the manifest in memory is dropped, manifest.json is not written
SaveConfigFails ==
    /\ IsSome(session)
    /\ session' = None
    /\ last' = [NoLast EXCEPT !.op = "save_config", !.name = Unwrap(session).name, !.result = "Err"]
    /\ UNCHANGED <<runtimeVars, sidecars, managers, chainBlobs, manifests, blobFiles, dests, clock>>

\* restore_config on one entry: Manifest::load_from(backup_name), then
\* manifest.restore_blob_to(entry, &dest_path)
RestoreBlobTo(name, i, dest_path) ==
    /\ IsSome(load_from(manifests[name]))
    /\ LET manifest == Unwrap(load_from(manifests[name]))
       IN /\ i \in 1..Len(manifest.entries)
          /\ LET r == restore_blob_to(manifest, manifest.entries[i], dests[dest_path])
             IN /\ dests' = [dests EXCEPT ![dest_path] = r.dest]
                /\ last' = [NoLast EXCEPT
                       !.op = "restore_blob_to", !.name = name,
                       !.id = manifest.entries[i].blob_id,
                       !.path = manifest.entries[i].logical_path,
                       !.dest = dest_path, !.result = r.result]
    /\ UNCHANGED <<runtimeVars, sidecars, managers, chainBlobs, manifests, blobFiles, session, clock>>

Next ==
    \/ \E name \in BackupNames : SaveConfigBegin(name)
    \/ \E f \in SrcFiles : CreateBlobFromFile(f)
    \/ \E d \in SrcDirs : CreateBlobFromDirectory(d)
    \/ \E file_paths \in BatchInputs : CreateBlobsFromFilesBatch(file_paths)
    \/ SaveConfigFinish
    \/ SaveConfigFails
    \/ \E name \in BackupNames, i \in 1..MaxClock, dest_path \in DestPaths :
           RestoreBlobTo(name, i, dest_path)

Spec == Init /\ [][Next]_vars

\* every match of the dedup lookup carries the same blob id
DedupHitIsUnique ==
    \A payload \in CompressedPayloads :
        Cardinality(ExistingBlobsAcrossBackups(SHA256(payload))) <= 1

-----------------------------------------------------------------------------
(* Claims about the ingest pipeline and restore, checked under Spec *)

\* the manifests of the store: the one a running save_config holds and the
\* ones saved on disk
SavedManifests == {Unwrap(load_from(manifests[n])) : n \in {b \in DOMAIN manifests : IsSome(manifests[b])}}

StoreManifests == SavedManifests \cup (IF IsSome(session) THEN {Unwrap(session)} ELSE {})

\* C1: after any sequence of ingest operations on a manifest, including
\* ingests that hit cross-snapshot deduplication, every entry's blob_id is a
\* key of that manifest's blobs map.
C1_EntryBlobsPresent ==
    IsSome(session) =>
        \A i \in 1..Len(Unwrap(session).entries) :
            Unwrap(session).entries[i].blob_id \in DOMAIN Unwrap(session).blobs

\* the bytes of the single-file source at a path
SourceBytes(path) == (CHOOSE f \in SrcFiles : f.path = path).data

\* C2: for every single-file source, saving it into a snapshot and then
\* restoring that snapshot writes exactly the bytes of the source file to
\* the destination, whatever snapshots the store already held at the save.
C2_RoundTrip ==
    (last.op = "restore_blob_to" /\ last.path \in {f.path : f \in SrcFiles})
    => /\ last.result = "Ok"
       /\ dests[last.dest] = Some(SourceBytes(last.path))

\* the sidecar metadata verify_blob_chain_integrity loads for a manifest
ChainInfoOf(manifest) == BlobChainManager_new(sidecars[get_metadata_path(manifest.name)], clock)

\* the blobs a payload replacement can leave in place of blob: another
\* payload (or text that is no base64), the size field updated or not,
\* sha256 and blob_chain_hash untouched
TamperedPayloads(blob) ==
    {[blob EXCEPT !.b64 = b64, !.size = size] :
        b64 \in ({Base64Encode(d) : d \in PayloadUniverse} \cup {"not base64"}) \ {blob.b64},
        size \in {blob.size} \cup {Len(d) : d \in PayloadUniverse}}

\* C4: for a chain built by the ingest pipeline, replacing the payload of any
\* one chained blob with different bytes, its sha256 and blob_chain_hash left
\* untouched, makes verify_blob_chain return false.
C4_TamperedPayloadIsFalse ==
    \A manifest \in SavedManifests :
        \A blob_id \in DOMAIN manifest.blobs :
            (\E i \in 1..Len(ChainInfoOf(manifest).chain_order) :
                 ChainInfoOf(manifest).chain_order[i] = blob_id)
            => \A tampered \in TamperedPayloads(manifest.blobs[blob_id]) :
                   verify_blob_chain(ChainInfoOf(manifest),
                                     [manifest.blobs EXCEPT ![blob_id] = tampered]) = "Ok(false)"

\* a saved snapshot of three blobs that verifies, and does not once the
\* payload of the second is replaced by that of the third
C4_Witness ==
    \E manifest \in SavedManifests :
        /\ Len(ChainInfoOf(manifest).chain_order) = 3
        /\ verify_blob_chain(ChainInfoOf(manifest), manifest.blobs) = "Ok(true)"
        /\ LET second == ChainInfoOf(manifest).chain_order[2]
               third == ChainInfoOf(manifest).chain_order[3]
           IN verify_blob_chain(
                  ChainInfoOf(manifest),
                  [manifest.blobs EXCEPT ![second].b64 = manifest.blobs[third].b64]) = "Ok(false)"

\* C8: for any two ingests of byte-identical post-compression payloads, into
\* the same snapshot or into different ones, the content store holds exactly
\* one blob file for the payload and both entries carry the same blob_id,
\* the hex SHA-256 of the payload.
C8_OneBlobFilePerPayload ==
    \A payload \in CompressedPayloads :
        /\ Cardinality({n \in BackupNames : SHA256(payload) \in DOMAIN blobFiles[n]}) <= 1
        /\ \A manifest \in StoreManifests :
               \A i \in 1..Len(manifest.entries) :
                   manifest.entries[i].blob_id \in {SHA256(c) : c \in CompressedPayloads}

\* C9: on a cross-snapshot dedup hit, an ingest appends exactly one entry
\* referencing the existing blob_id and changes nothing else in the store:
\* no blob file is created and the blob chain sidecar is unchanged.
C9_DedupHitFrame ==
    [][(/\ clock' # clock
        /\ last'.op \in {"create_blob_from_file", "create_blob_from_directory"}
        /\ last'.hits = 1)
       => /\ Len(Unwrap(session').entries) = Len(Unwrap(session).entries) + 1
          /\ SubSeq(Unwrap(session').entries, 1, Len(Unwrap(session).entries)) = Unwrap(session).entries
          /\ \E manifest \in SavedManifests :
                 Unwrap(session').entries[Len(Unwrap(session').entries)].blob_id
                     \in DOMAIN manifest.blobs
          /\ Unwrap(session').blobs = Unwrap(session).blobs
          /\ blobFiles' = blobFiles
          /\ sidecars' = sidecars
          /\ manifests' = manifests]_vars

\* an ingest into snap-B reused a blob of the saved snap-A
C9_Witness ==
    /\ last.op = "create_blob_from_file"
    /\ last.hits = 1
    /\ IsSome(session)
    /\ \E manifest \in SavedManifests :
           /\ manifest.name # Unwrap(session).name
           /\ last.id \in DOMAIN manifest.blobs

-----------------------------------------------------------------------------
(* Crashes while the sidecar is rewritten: save_metadata writes the file   *)
(* in place with fs::write (create or truncate, then write the bytes)      *)

\* what a crash during fs::write(path, bytes) can leave at path: any prefix
\* of bytes, from the empty file just truncated to the complete content
WriteInterrupted(bytes) == {SubSeq(bytes, 1, k) : k \in 0..Len(bytes)}

\* add_blob_to_chain interrupted by a crash of the process inside
\* save_metadata: the managers and the caller's blobs in memory are gone
AddBlobToChainCrash(name, blob_id, data, caller_prev) ==
    /\ IsSome(managers[name])
    /\ clock < MaxAdds
    /\ LET blob == set_previous_blob_hash(BlobPayload_new("tar.zst", data), caller_prev)
           r == add_blob_to_chain(Unwrap(managers[name]), blob_id, blob, clock + 1)
           bytes == Unwrap(save_metadata(r.metadata, FreshNonce(clock + 1)))
       IN \E found \in WriteInterrupted(bytes) :
              sidecars' = [sidecars EXCEPT ![get_metadata_path(name)] = Some(found)]
    /\ managers' = [n \in BackupNames |-> None]
    /\ chainBlobs' = [n \in BackupNames |-> EmptyMap]
    /\ clock' = clock + 1
    /\ last' = [NoLast EXCEPT !.op = "add_blob_to_chain", !.name = name, !.id = blob_id,
                  !.result = "crash"]
    /\ UNCHANGED <<runtimeVars, manifests, blobFiles, session, dests>>

NextCrash ==
    \/ NextChain
    \/ \E name \in BackupNames, blob_id \in BlobIds, data \in Payloads,
          caller_prev \in CallerPrevs :
            AddBlobToChainCrash(name, blob_id, data, caller_prev)

SpecCrash == InitChain /\ [][NextCrash]_vars

\* C11: if the process crashes at any point while the blob chain sidecar is
\* rewritten, the sidecar found on disk afterwards is the complete previous
\* sidecar or the complete new one, never a partially written file: every
\* sidecar file on disk decrypts and parses.
C11_SidecarNeverTorn ==
    \A name \in BackupNames :
        IsSome(sidecars[get_metadata_path(name)]) => IsSome(load_metadata(sidecars[get_metadata_path(name)]))

-----------------------------------------------------------------------------
(* Claims about the order of the blob chain, checked under Spec *)

\* chain_order as a manager opened on the snapshot's sidecar file finds it
ChainOrderOnDisk(files, name) == BlobChainManager_new(files[get_metadata_path(name)], 0).chain_order

RECURSIVE BlobIdsOf(_)
BlobIdsOf(entries) ==
    IF entries = <<>> THEN <<>> ELSE <<Head(entries).blob_id>> \o BlobIdsOf(Tail(entries))

\* C12: each successful add_blob_to_chain extends chain_order by one element
\* at the tail and leaves the earlier elements in place: an ingest step of a
\* save extends the snapshot's chain_order by exactly the blob ids of the
\* blobs it created (the entries it appended that were no dedup hit), in the
\* order their ingests completed.
C12_ChainOrderFollowsIngests ==
    [][(IsSome(session) /\ IsSome(session') /\ clock' # clock)
       => LET name == Unwrap(session).name
              before == Unwrap(session).entries
              after == Unwrap(session').entries
              added == SubSeq(after, Len(before) + 1, Len(after))
              created == SelectSeq(added, LAMBDA e : ExistingBlobsAcrossBackups(e.blob_id) = {})
          IN ChainOrderOnDisk(sidecars', name)
                 = ChainOrderOnDisk(sidecars, name) \o BlobIdsOf(created)]_vars

\* a save that has created three different blobs, chained in ingest order
C12_Witness ==
    /\ IsSome(session)
    /\ Len(Unwrap(session).entries) = 3
    /\ Distinct(BlobIdsOf(Unwrap(session).entries))
    /\ ChainOrderOnDisk(sidecars, Unwrap(session).name) = BlobIdsOf(Unwrap(session).entries)

-----------------------------------------------------------------------------
(* Claims about the sidecar files, checked under SpecChain *)

\* C13: after any sequence of add_blob_to_chain calls, a new manager opened
\* on the same storage directory and backup name loads exactly the
\* chain_order, blob_positions and blob_chain_hashes that were last saved,
\* and its verify_integrity is true.
C13_ReloadRestoresChain ==
    \A name \in BackupNames :
        (IsSome(sidecars[get_metadata_path(name)]) /\ IsSome(managers[name]))
        => LET saved == Unwrap(managers[name])
               reopened == BlobChainManager_new(sidecars[get_metadata_path(name)], clock)
           IN /\ reopened.chain_order = saved.chain_order
              /\ reopened.blob_positions = saved.blob_positions
              /\ reopened.blob_chain_hashes = saved.blob_chain_hashes
              /\ verify_integrity(reopened)

\* a manager just opened on a sidecar that three calls have written
C13_Witness ==
    /\ last.op = "BlobChainManager::new"
    /\ last.result = "loaded"
    /\ Len(ChainOf(last.name)) = 3
    /\ ChainOf(last.name) = ChainOrderOnDisk(sidecars, last.name)
    /\ DOMAIN Unwrap(managers[last.name]).blob_chain_hashes
           = {ChainOf(last.name)[i] : i \in 1..3}

\* C14: add_blob_to_chain on the manager of one snapshot never changes the
\* sidecar of a different snapshot of the same store directory, and each
\* snapshot's chain_order contains only blobs added through a manager opened
\* for that snapshot's name.
C14_SidecarsAreIsolated ==
    [][(last'.op = "add_blob_to_chain" /\ clock' # clock)
       => \A name \in BackupNames :
              /\ name # last'.name =>
                     /\ sidecars'[get_metadata_path(name)] = sidecars[get_metadata_path(name)]
                     /\ ChainOrderOnDisk(sidecars', name) = ChainOrderOnDisk(sidecars, name)
              /\ \A i \in 1..Len(ChainOrderOnDisk(sidecars', name)) :
                     ChainOrderOnDisk(sidecars', name)[i] \in DOMAIN chainBlobs'[name]]_vars

\* both snapshots have a chain, and blob1 is in the chain of snap-A only
C14_Witness ==
    /\ last.op = "add_blob_to_chain"
    /\ ChainOrderOnDisk(sidecars, "snap-A") = <<"blob1">>
    /\ ChainOrderOnDisk(sidecars, "snap-B") = <<"blob2", "blob3">>

-----------------------------------------------------------------------------
(* Claims about blob payloads, checked under SpecChain *)

\* the blobs a caller holds before add_blob_to_chain: built by
\* BlobPayload::new, a previous hash set or not, never finalized
UnfinalizedBlobs ==
    {set_previous_blob_hash(BlobPayload_new("tar.zst", data), prev) :
        data \in Payloads, prev \in CallerPrevs}

\* SHA256(previous_blob_hash || content identity hash) from the fields
RecomputedChainHash(blob) ==
    SHA256((IF blob.previous_blob_hash = None THEN "" ELSE blob.previous_blob_hash[1])
           \o SHA256(blob.format \o blob.sha256 \o to_le_bytes(blob.size) \o blob.b64))

\* C15: a blob payload has a blob_chain_hash if and only if
\* finalize_blob_chain_hash has been called on it; for a finalized blob the
\* stored hash equals SHA256(previous_blob_hash || content identity hash)
\* recomputed from its other fields, so verify_blob_integrity is true right
\* after finalize and false for a blob never finalized.
C15_ChainHashIffFinalized ==
    /\ \A blob \in UnfinalizedBlobs :
           /\ blob.blob_chain_hash = None
           /\ ~verify_blob_integrity(blob)
           /\ finalize_blob_chain_hash(blob).blob_chain_hash = Some(RecomputedChainHash(blob))
           /\ verify_blob_integrity(finalize_blob_chain_hash(blob))
    /\ \A name \in BackupNames : \A blob_id \in DOMAIN chainBlobs[name] :
           /\ chainBlobs[name][blob_id].blob_chain_hash
                  = Some(RecomputedChainHash(chainBlobs[name][blob_id]))
           /\ verify_blob_integrity(chainBlobs[name][blob_id])

\* a blob the caller gave a previous hash, finalized by add_blob_to_chain on
\* another one
C15_Witness ==
    /\ last.op = "add_blob_to_chain"
    /\ Len(ChainOf(last.name)) = 2
    /\ Distinct(ChainOf(last.name))
    /\ LET blob == chainBlobs[last.name][last.id]
       IN /\ blob.previous_blob_hash
                 = chainBlobs[last.name][ChainOf(last.name)[1]].blob_chain_hash
          /\ blob.blob_chain_hash # None
          /\ verify_blob_integrity(blob)

-----------------------------------------------------------------------------
(* Claims about the blobs of a manifest, checked under Spec *)

\* C16: each blob is finalized exactly once: once a blob is finalized and
\* inserted into a manifest's blobs map under some blob_id, no later ingest
\* into that manifest changes that blob_id's previous_blob_hash,
\* blob_chain_hash or payload.
C16_BlobsNeverChange ==
    [][(IsSome(session) /\ IsSome(session') /\ clock' # clock)
       => \A blob_id \in DOMAIN Unwrap(session).blobs :
              /\ blob_id \in DOMAIN Unwrap(session').blobs
              /\ Unwrap(session').blobs[blob_id].previous_blob_hash
                     = Unwrap(session).blobs[blob_id].previous_blob_hash
              /\ Unwrap(session').blobs[blob_id].blob_chain_hash
                     = Unwrap(session).blobs[blob_id].blob_chain_hash
              /\ Unwrap(session').blobs[blob_id].b64 = Unwrap(session).blobs[blob_id].b64]_vars

-----------------------------------------------------------------------------
(* The commands of lib.rs on a store of up to three snapshots: save_config *)
(* as a whole, verify_backup_integrity, verify_backup_chain and            *)
(* get_backup_chain_info                                                   *)

InitBackups ==
    /\ sidecars = [p \in {get_metadata_path(n) : n \in SnapshotNames} |-> None]
    /\ manifests = [n \in SnapshotNames |-> None]
    /\ blobFiles = [n \in SnapshotNames |-> EmptyMap]
    /\ managers = [n \in SnapshotNames |-> None]
    /\ chainBlobs = [n \in SnapshotNames |-> EmptyMap]
    /\ session = None
    /\ dests = [p \in DestPaths |-> None]
    /\ clock = 0
    /\ last = NoLast
    /\ InitRuntime

\* the loop of save_config over the config paths of the installed apps
RECURSIVE IngestPaths(_, _, _)
IngestPaths(w, paths, now) ==
    IF paths = <<>> THEN w
    ELSE IngestPaths(
             create_blob_from_file(
                 w, Head(paths),
                 find_existing_blob_across_backups(
                     SHA256(adaptive_compress(TarBytes(TarOfFile(Head(paths)))))),
                 now),
             Tail(paths), now + 1)

\* the config paths of the apps a save_config call names: none, or one file
AppPaths == {<<>>} \cup {<<f>> : f \in SrcFiles}

\* save_config(name, app_ids), paths the config files of the installed apps
SaveConfig(name, paths) ==
    /\ session = None
    /\ clock + 1 + Len(paths) <= MaxSaveClock
    /\ clock' = clock + 1 + Len(paths)
    /\ LET w == IngestPaths([manifest |-> Manifest_new(name, clock + 1, "linux"),
                             sidecar |-> sidecars[get_metadata_path(name)],
                             files |-> blobFiles[name]],
                            paths, clock + 2)
       IN /\ sidecars' = [sidecars EXCEPT ![get_metadata_path(name)] = w.sidecar]
          /\ blobFiles' = [blobFiles EXCEPT ![name] = w.files]
          /\ manifests' = Manifest_save(LinkPreviousBackup(w.manifest, manifests), manifests)
    /\ last' = [NoLast EXCEPT !.op = "save_config", !.name = name, !.result = "Ok"]
    /\ init_thread_pool
    /\ UNCHANGED <<config, workers, threads, managers, chainBlobs, session, dests>>

\* verify_backup_integrity(backup_name)
VerifyBackupIntegrity(backup_name) ==
    /\ last' = [NoLast EXCEPT
           !.op = "verify_backup_integrity", !.name = backup_name,
           !.result = IF ~IsSome(load_from(manifests[backup_name])) THEN "Err(load)"
                      ELSE IF verify_backup_integrity(Unwrap(load_from(manifests[backup_name])))
                           THEN "Ok"
                           ELSE "Err(failed integrity verification)"]
    /\ UNCHANGED <<runtimeVars, sidecars, managers, chainBlobs, manifests, blobFiles, session, dests, clock>>

\* what a verify command returns for the answer of the Manifest method: the
\* answer false becomes an Err of the command
VerifyCommandReturn(is_valid) ==
    IF is_valid = "Ok(true)" THEN "Ok"
    ELSE IF is_valid = "Ok(false)" THEN "Err(failed verification)"
    ELSE is_valid

\* verify_backup_chain(start_backup_name): hits is the number of snapshots
\* the walk visited
VerifyBackupChain(start_backup_name) ==
    /\ IF ~IsSome(load_from(manifests[start_backup_name]))
       THEN last' = [NoLast EXCEPT !.op = "verify_backup_chain",
                                   !.name = start_backup_name, !.result = "Err(load)"]
       ELSE \E r \in verify_chain_from(manifests, start_backup_name) :
                last' = [NoLast EXCEPT !.op = "verify_backup_chain",
                                       !.name = start_backup_name,
                                       !.result = VerifyCommandReturn(r.result),
                                       !.hits = Len(r.visited)]
    /\ UNCHANGED <<runtimeVars, sidecars, managers, chainBlobs, manifests, blobFiles, session, dests, clock>>

\* get_backup_chain_info(backup_name): id is chain_hash, result tells
\* is_integrity_valid
GetBackupChainInfo(backup_name) ==
    /\ last' = IF ~IsSome(load_from(manifests[backup_name]))
               THEN [NoLast EXCEPT !.op = "get_backup_chain_info",
                                   !.name = backup_name, !.result = "Err(load)"]
               ELSE LET manifest == Unwrap(load_from(manifests[backup_name]))
                    IN [NoLast EXCEPT
                           !.op = "get_backup_chain_info", !.name = manifest.name,
                           !.id = IF IsSome(manifest.backup_chain_hash)
                                  THEN Unwrap(manifest.backup_chain_hash) ELSE "",
                           !.result = IF verify_backup_integrity(manifest)
                                      THEN "valid" ELSE "invalid"]
    /\ UNCHANGED <<runtimeVars, sidecars, managers, chainBlobs, manifests, blobFiles, session, dests, clock>>

NextBackups ==
    \/ \E name \in SnapshotNames, paths \in AppPaths : SaveConfig(name, paths)
    \/ \E backup_name \in SnapshotNames : VerifyBackupIntegrity(backup_name)
    \/ \E start_backup_name \in SnapshotNames : VerifyBackupChain(start_backup_name)
    \/ \E backup_name \in SnapshotNames : GetBackupChainInfo(backup_name)

SpecBackups == InitBackups /\ [][NextBackups]_vars

\* the snapshots of the store
StoredSnapshots == {n \in DOMAIN manifests : IsSome(load_from(manifests[n]))}

StoredManifest(n) == Unwrap(load_from(manifests[n]))

(* C17: when a snapshot is saved under a name the store does not hold yet,
   its previous_backup_hash is the backup_chain_hash of the snapshot whose
   save was the operation before, and the first snapshot of a store has no
   previous_backup_hash. *)
C17_LinksToImmediatePredecessor ==
    [][(/\ last'.op = "save_config"
        /\ clock' > clock
        /\ last'.name \notin StoredSnapshots)
       => LET saved == Unwrap(load_from(manifests'[last'.name]))
          IN /\ StoredSnapshots = {} => saved.previous_backup_hash = None
             /\ (last.op = "save_config" /\ last.name \in StoredSnapshots)
                    => /\ IsSome(saved.previous_backup_hash)
                       /\ saved.previous_backup_hash
                              = StoredManifest(last.name).backup_chain_hash]_vars

\* three snapshots saved one after another under three names: the third was
\* linked to the second
C17_Witness ==
    /\ StoredSnapshots = SnapshotNames
    /\ clock = 3
    /\ last.op = "save_config"
    /\ \E n \in SnapshotNames \ {last.name} :
           /\ StoredManifest(n).created_at = 2
           /\ StoredManifest(last.name).previous_backup_hash
                  = StoredManifest(n).backup_chain_hash
           /\ IsSome(StoredManifest(n).previous_backup_hash)

\* SHA256(previous_backup_hash || H_b) of a manifest, from its fields
ExpectedChainHash(manifest) ==
    IF IsSome(manifest.previous_backup_hash)
    THEN SHA256(Unwrap(manifest.previous_backup_hash) \o calculate_backup_hash(manifest))
    ELSE SHA256(calculate_backup_hash(manifest))

(* C18: every manifest.json of the store, read back exactly as save wrote
   it, carries the chain hash SHA256(previous_backup_hash || H_b) of its own
   fields, and verify_backup_integrity on it answers true. *)
C18_SavedManifestVerifies ==
    /\ \A n \in StoredSnapshots :
           /\ StoredManifest(n).backup_chain_hash = Some(ExpectedChainHash(StoredManifest(n)))
           /\ verify_backup_integrity(StoredManifest(n))
    /\ (last.op = "verify_backup_integrity" /\ last.name \in StoredSnapshots)
           => last.result = "Ok"

\* verify_backup_integrity has answered true on a saved snapshot that has
\* an entry and a previous snapshot
C18_Witness ==
    /\ last.op = "verify_backup_integrity"
    /\ last.result = "Ok"
    /\ last.name \in StoredSnapshots
    /\ IsSome(StoredManifest(last.name).previous_backup_hash)
    /\ StoredManifest(last.name).entries # <<>>

(* C19: from every snapshot of a store that only save_config has written,
   verify_chain_from answers true. *)
C19_PipelineChainsVerify ==
    \A n \in StoredSnapshots :
        \A r \in verify_chain_from(manifests, n) : r.result = "Ok(true)"

\* As long as no name has been saved twice (every save without ingests took
\* one tick and made one snapshot), every chain of the store verifies.
ChainsWithoutResaveVerify ==
    Cardinality(StoredSnapshots) = clock
        => \A n \in StoredSnapshots :
               \A r \in verify_chain_from(manifests, n) : r.result = "Ok(true)"

-----------------------------------------------------------------------------
(* Any store content: besides the commands, snapshot directories are       *)
(* removed and manifest.json files are edited from outside the program     *)

\* a backup directory is deleted
RemoveBackup(name) ==
    /\ name \in StoredSnapshots
    /\ manifests' = [manifests EXCEPT ![name] = None]
    /\ blobFiles' = [blobFiles EXCEPT ![name] = EmptyMap]
    /\ last' = [NoLast EXCEPT !.op = "remove", !.name = name]
    /\ UNCHANGED <<runtimeVars, sidecars, managers, chainBlobs, session, dests, clock>>

\* the values an edit can give previous_backup_hash: none, the chain hash of
\* a stored snapshot, or a hash no snapshot has
ForgedPrevious ==
    {None, Some(SHA256("forged"))}
        \cup {StoredManifest(n).backup_chain_hash : n \in StoredSnapshots}

\* manifest.json of a backup is rewritten with another previous_backup_hash,
\* its backup_chain_hash left alone or recomputed to match
EditManifest(name, previous, rehash) ==
    /\ name \in StoredSnapshots
    /\ previous # StoredManifest(name).previous_backup_hash
    /\ clock < MaxSaveClock
    /\ clock' = clock + 1
    /\ LET edited == [StoredManifest(name) EXCEPT !.previous_backup_hash = previous]
       IN manifests' = [manifests EXCEPT ![name] =
              Some(manifest_to_json(
                  IF rehash
                  THEN [edited EXCEPT !.backup_chain_hash = Some(calculate_chain_hash(edited))]
                  ELSE edited))]
    /\ last' = [NoLast EXCEPT !.op = "edit", !.name = name]
    /\ UNCHANGED <<runtimeVars, sidecars, managers, chainBlobs, blobFiles, session, dests>>

NextStore ==
    \/ \E name \in SnapshotNames : SaveConfig(name, <<>>)
    \/ \E name \in SnapshotNames : RemoveBackup(name)
    \/ \E name \in SnapshotNames, previous \in ForgedPrevious, rehash \in BOOLEAN :
           EditManifest(name, previous, rehash)
    \/ \E start_backup_name \in SnapshotNames : VerifyBackupChain(start_backup_name)

SpecStore == InitBackups /\ [][NextStore]_vars

\* a stored manifest carries the given chain hash
Resolves(hash) ==
    \E n \in StoredSnapshots : StoredManifest(n).backup_chain_hash = hash

(* C20: on every store content and from every stored snapshot the walk of
   verify_chain_from ends: it visits stored snapshots, each at most once,
   each one the snapshot whose backup_chain_hash the one before names; it
   ends with CycleError only where the next reference names a snapshot
   already visited, with BrokenChain exactly where a verified snapshot
   names a hash no stored manifest carries, with false only at a snapshot
   that fails its integrity check, and with true only at a snapshot
   without previous_backup_hash. *)
C20_ChainWalkTerminates ==
    \A n \in StoredSnapshots : \A r \in verify_chain_from(manifests, n) :
        LET tail == StoredManifest(r.visited[Len(r.visited)])
            verified == tail.backup_chain_hash = Some(ExpectedChainHash(tail))
        IN /\ r.visited # <<>>
           /\ r.visited[1] = n
           /\ Len(r.visited) <= Cardinality(StoredSnapshots)
           /\ Distinct(r.visited)
           /\ \A i \in 1..Len(r.visited) : r.visited[i] \in StoredSnapshots
           /\ \A i \in 1..(Len(r.visited) - 1) :
                  /\ IsSome(StoredManifest(r.visited[i]).previous_backup_hash)
                  /\ StoredManifest(r.visited[i + 1]).backup_chain_hash
                         = StoredManifest(r.visited[i]).previous_backup_hash
           /\ r.result \in {"Ok(true)", "Ok(false)", "Err(CycleError)", "Err(BrokenChain)"}
           /\ r.result = "Err(CycleError)"
                  => \E i \in 1..Len(r.visited) :
                         StoredManifest(r.visited[i]).backup_chain_hash
                             = tail.previous_backup_hash
           /\ r.result = "Err(BrokenChain)"
                  <=> (verified /\ IsSome(tail.previous_backup_hash)
                                /\ ~Resolves(tail.previous_backup_hash))
           /\ r.result = "Ok(false)" <=> ~verified
           /\ r.result = "Ok(true)" => ~IsSome(tail.previous_backup_hash)

\* verify_backup_chain has walked two snapshots or more and has ended with
\* BrokenChain, while another snapshot of the store is a verified genesis
C20_Witness ==
    /\ last.op = "verify_backup_chain"
    /\ last.result = "Err(BrokenChain)"
    /\ last.hits >= 2
    /\ \E n \in StoredSnapshots : \E r \in verify_chain_from(manifests, n) :
           r.result = "Ok(true)"

-----------------------------------------------------------------------------
(* Failing saves *)

(* C21: a save_config that returns an error leaves every manifest.json as
   it was, and with it the blob files and the sidecar its ingests wrote;
   manifest.json changes only in the step that ends a session with Ok, and
   what is written then holds every entry the session ingested. *)
C21_ManifestOnlyAfterSuccess ==
    [][/\ (last'.op = "save_config" /\ last'.result = "Err" /\ IsSome(session))
            => /\ manifests' = manifests
               /\ sidecars' = sidecars
               /\ blobFiles' = blobFiles
       /\ manifests' # manifests
            => /\ IsSome(session)
               /\ session' = None
               /\ last'.op = "save_config"
               /\ last'.result = "Ok"
               /\ last'.name = Unwrap(session).name
               /\ \A n \in DOMAIN manifests : n # last'.name => manifests'[n] = manifests[n]
               /\ IsSome(load_from(manifests'[last'.name]))
               /\ Unwrap(load_from(manifests'[last'.name])).entries = Unwrap(session).entries
               /\ IsSome(Unwrap(load_from(manifests'[last'.name])).backup_chain_hash)]_vars

\* a save has failed after an ingest: the blob file and the sidecar of the
\* snapshot are there, its manifest.json is not
C21_Witness ==
    /\ last.op = "save_config"
    /\ last.result = "Err"
    /\ manifests[last.name] = None
    /\ blobFiles[last.name] # EmptyMap
    /\ IsSome(sidecars[get_metadata_path(last.name)])

-----------------------------------------------------------------------------
(* Restores *)

\* the entries of the stored manifest that the last restore_blob_to can
\* have been given
LastRestoredEntries ==
    IF last.op = "restore_blob_to" /\ IsSome(load_from(manifests[last.name]))
    THEN {e \in {StoredManifest(last.name).entries[i] :
                    i \in 1..Len(StoredManifest(last.name).entries)} :
             e.blob_id = last.id /\ e.logical_path = last.path}
    ELSE {}

(* C22: restore_blob_to on an entry without tar_member (a blob made from a
   directory) succeeds. *)
C22_DirectoryEntryRestores ==
    (\E e \in LastRestoredEntries : ~IsSome(e.tar_member)) => last.result = "Ok"

-----------------------------------------------------------------------------
(* apps/*.rs, installer/mod.rs and restore_config of lib.rs, on Linux *)

\* a path: its parent directory, file stem and extension
PathBuf(parent, stem, extension) == [parent |-> parent, stem |-> stem, extension |-> extension]

\* path.display()
display(path) == path.parent \o "/" \o path.stem \o "." \o path.extension

\* path.with_extension(extension): the extension of the file name is replaced
with_extension(path, extension) == path.parent \o "/" \o path.stem \o "." \o extension

\* REGISTRY: the adapters with the config files each finds in its directory
REGISTRY ==
    <<[id |-> "zed", target_hint |-> "app:zed", package_id |-> Some("zed"),
       config_path |-> <<PathBuf("/home/.config/zed", "settings", "json"),
                         PathBuf("/home/.config/zed", "keymap", "json")>>],
      [id |-> "windows-terminal", target_hint |-> "sys:windows-terminal", package_id |-> None,
       config_path |-> <<PathBuf("/home/wt/LocalState", "settings", "json")>>],
      [id |-> "vscode", target_hint |-> "app:vscode", package_id |-> Some("code"),
       config_path |-> <<PathBuf("/home/.config/Code", "settings", "json")>>]>>

\* apps::get_app(id)
get_app(id) ==
    IF \E i \in 1..Len(REGISTRY) : REGISTRY[i].id = id
    THEN Some(REGISTRY[CHOOSE i \in 1..Len(REGISTRY) : REGISTRY[i].id = id])
    ELSE None

\* the destinations a caller of restore_blobs_batch names: pairwise
\* distinct paths, two of them with the same parent and stem
BatchDests ==
    {PathBuf("/out", "settings", "json"), PathBuf("/out", "settings", "toml"),
     PathBuf("/out", "keymap", "json")}

RestoreDests ==
    BatchDests \cup UNION {{REGISTRY[i].config_path[j] : j \in 1..Len(REGISTRY[i].config_path)} :
                              i \in 1..Len(REGISTRY)}

\* the files a restore can touch: the destinations and their temp files
RestoreFiles ==
    {display(p) : p \in RestoreDests} \cup {with_extension(p, "tmp.part") : p \in RestoreDests}

\* what an interrupted std::io::copy has written of the data
PartOf(data) == SubSeq(data, 1, Len(data) \div 2)

\* restore_blob_to after the member r was found: File::create(&tmp) and
\* io::copy to tmp = dest.with_extension("tmp.part"), then fs::rename(tmp,
\* &dest); io_fails tells that the copy meets an I/O error
WriteMember(r, dest, files, io_fails) ==
    IF r.result # "Ok" THEN [result |-> r.result, files |-> files]
    ELSE IF io_fails
    THEN [result |-> "Err(io)",
          files |-> [files EXCEPT ![with_extension(dest, "tmp.part")] =
                                      Some(PartOf(Unwrap(r.dest)))]]
    ELSE [result |-> "Ok",
          files |-> [files EXCEPT ![with_extension(dest, "tmp.part")] = None,
                                  ![display(dest)] = r.dest]]

\* restore_blob_to(entry, dest) on the files
RestoreBlobToFile(manifest, entry, dest, files, io_fails) ==
    WriteMember(restore_blob_to(manifest, entry, files[display(dest)]), dest, files, io_fails)

\* restore_config after one restore_blob_to returned r
AfterRestore(acc, app_id, dest_path, r) ==
    [files |-> r.files,
     events |-> Append(acc.events, <<"restore_blob_to", app_id, display(dest_path), r.result>>),
     result |-> r.result]

\* as AfterRestore, but the first error is kept and the loop goes on
AfterRestoreKeepingError(acc, app_id, dest_path, r) ==
    [files |-> r.files,
     events |-> Append(acc.events, <<"restore_blob_to", app_id, display(dest_path), r.result>>),
     result |-> IF acc.result = "Ok" THEN r.result ELSE acc.result]

RECURSIVE RestoreDestPaths(_, _, _, _, _, _)

\* restore_config: `?` after restore_blob_to
RestoreDestPathsNext(next, manifest, entry, app_id, dest_paths, io_fail_at) ==
    IF next.result # "Ok" THEN next
    ELSE RestoreDestPaths(manifest, entry, app_id, dest_paths, io_fail_at, next)

\* faulty variant of RestoreDestPaths: the error of a destination is dropped
RECURSIVE RestoreDestPaths_ignoresErrors(_, _, _, _, _, _)
RestoreDestPaths_ignoresErrors(manifest, entry, app_id, dest_paths, io_fail_at, acc) ==
    IF dest_paths = <<>> THEN acc
    ELSE RestoreDestPaths_ignoresErrors(
             manifest, entry, app_id, Tail(dest_paths), io_fail_at,
             AfterRestoreKeepingError(
                 acc, app_id, Head(dest_paths),
                 RestoreBlobToFile(manifest, entry, Head(dest_paths), acc.files,
                                   io_fail_at = Some(display(Head(dest_paths))))))

\* restore_config: the loop over the config paths of one application
RestoreDestPaths(manifest, entry, app_id, dest_paths, io_fail_at, acc) ==
    IF dest_paths = <<>> THEN acc
    ELSE RestoreDestPathsNext(
             AfterRestore(acc, app_id, Head(dest_paths),
                          RestoreBlobToFile(manifest, entry, Head(dest_paths), acc.files,
                                            io_fail_at = Some(display(Head(dest_paths))))),
             manifest, entry, app_id, Tail(dest_paths), io_fail_at)

\* the first entry of the manifest with the target hint, if any
FindEntry(manifest, target_hint) ==
    IF \E i \in 1..Len(manifest.entries) : manifest.entries[i].target_hint = target_hint
    THEN Some(manifest.entries[CHOOSE i \in 1..Len(manifest.entries) :
                  /\ manifest.entries[i].target_hint = target_hint
                  /\ \A j \in 1..(i - 1) : manifest.entries[j].target_hint # target_hint])
    ELSE None

\* restore_config: the part of one application after the install check
RestoreApp(manifest, app, io_fail_at, acc) ==
    IF IsSome(FindEntry(manifest, app.target_hint))
    THEN RestoreDestPaths(manifest, Unwrap(FindEntry(manifest, app.target_hint)),
                          app.id, app.config_path, io_fail_at, acc)
    ELSE acc

\* restore_config: the install_app call for app, when it is made
TryInstall(app, installed, install_ok, acc) ==
    IF app.id \notin installed /\ IsSome(app.package_id)
    THEN [acc EXCEPT !.events = Append(@, <<"install_app", app.id, Unwrap(app.package_id),
                                            IF install_ok THEN "Ok" ELSE "Err">>),
                     !.result = IF install_ok THEN @ ELSE "Err(install)"]
    ELSE acc

RECURSIVE RestoreApps(_, _, _, _, _, _)

\* restore_config: `?` after install_app and after the restores of app
RestoreAppsNext(r, manifest, app_ids, installed, install_ok, io_fail_at) ==
    IF r.result # "Ok" THEN r
    ELSE RestoreApps(manifest, app_ids, installed, install_ok, io_fail_at, r)

\* restore_config: one application of the registry
RestoreRegistered(manifest, app, rest, installed, install_ok, io_fail_at, acc) ==
    IF app.id \notin installed /\ ~IsSome(app.package_id)
    THEN RestoreApps(manifest, rest, installed, install_ok, io_fail_at,
                     [acc EXCEPT !.events = Append(@, <<"skip", app.id>>)])
    ELSE IF app.id \notin installed /\ ~install_ok
    THEN TryInstall(app, installed, install_ok, acc)
    ELSE RestoreAppsNext(
             RestoreApp(manifest, app, io_fail_at, TryInstall(app, installed, install_ok, acc)),
             manifest, rest, installed \cup {app.id}, install_ok, io_fail_at)

\* faulty variant of RestoreApps: an application that is not installed is
\* restored without the installer
RECURSIVE RestoreApps_withoutInstaller(_, _, _, _, _, _)
RestoreApps_withoutInstaller(manifest, app_ids, installed, install_ok, io_fail_at, acc) ==
    IF app_ids = <<>> \/ acc.result # "Ok" THEN acc
    ELSE IF ~IsSome(get_app(Head(app_ids)))
    THEN RestoreApps_withoutInstaller(manifest, Tail(app_ids), installed, install_ok,
                                      io_fail_at, acc)
    ELSE RestoreApps_withoutInstaller(
             manifest, Tail(app_ids), installed, install_ok, io_fail_at,
             RestoreApp(manifest, Unwrap(get_app(Head(app_ids))), io_fail_at, acc))

\* restore_config: the loop over app_ids.  installed are the applications
\* whose is_installed() is true, install_ok tells whether the package
\* manager succeeds, io_fail_at names the destination whose copy fails.
RestoreApps(manifest, app_ids, installed, install_ok, io_fail_at, acc) ==
    IF app_ids = <<>> THEN acc
    ELSE IF ~IsSome(get_app(Head(app_ids)))
    THEN RestoreApps(manifest, Tail(app_ids), installed, install_ok, io_fail_at, acc)
    ELSE RestoreRegistered(manifest, Unwrap(get_app(Head(app_ids))), Tail(app_ids),
                           installed, install_ok, io_fail_at, acc)

AppIdLists ==
    {<<"zed">>, <<"vscode">>, <<"zed", "vscode">>, <<"windows-terminal", "zed">>,
     <<"vscode", "zed">>, <<"windows-terminal">>, <<"helix">>}

InstalledSets == {{}, {"zed"}, {"zed", "windows-terminal", "vscode"}}

\* restore_config returns after the loop ended with r
RestoreConfigReturns(r, backup_name, app_ids, installed) ==
    /\ dests' = r.files
    /\ last' = [NoLast EXCEPT !.op = "restore_config", !.name = backup_name,
                              !.result = r.result, !.events = r.events,
                              !.args = <<app_ids, installed>>]

\* restore_config(backup_name, app_ids)
RestoreConfig(backup_name, app_ids, installed, install_ok, io_fail_at) ==
    /\ workers = <<>>
    /\ clock + 1 <= MaxRestoreClock
    /\ clock' = clock + 1
    /\ IF ~IsSome(load_from(manifests[backup_name]))
       THEN /\ dests' = dests
            /\ last' = [NoLast EXCEPT !.op = "restore_config", !.name = backup_name,
                                      !.result = "Err(load)"]
       ELSE RestoreConfigReturns(
                RestoreApps(Unwrap(load_from(manifests[backup_name])), app_ids,
                            installed, install_ok, io_fail_at,
                            [files |-> dests, events |-> <<>>, result |-> "Ok"]),
                backup_name, app_ids, installed)
    /\ UNCHANGED <<runtimeVars, sidecars, managers, chainBlobs, manifests, blobFiles, session>>

-----------------------------------------------------------------------------
(* restore_blobs_batch: every (entry, dest) pair is restored by             *)
(* restore_blob_to on a thread of the pool; the steps of a thread are the   *)
(* system calls of restore_blob_to                                          *)

RECURSIVE Pad(_)
Pad(n) == IF n = 0 THEN "" ELSE "0" \o Pad(n - 1)

\* the content of a file after a write of chunk at offset off (a write past
\* the end leaves a hole of zero bytes)
WriteAt(content, off, chunk) ==
    LET base == IF Len(content) < off THEN content \o Pad(off - Len(content)) ELSE content
    IN SubSeq(base, 1, off) \o chunk \o SubSeq(base, off + Len(chunk) + 1, Len(base))

\* the pairs a caller passes: up to two entries of the manifest, each with
\* its own destination
BatchPairs(manifest) ==
    {<<>>}
    \cup {<<[entry |-> 1, dest |-> d]>> : d \in BatchDests}
    \cup {<<[entry |-> 1, dest |-> p[1]], [entry |-> Len(manifest.entries), dest |-> p[2]]>> :
              p \in {q \in BatchDests \X BatchDests : q[1] # q[2]}}

\* the pool rayon builds by itself at the first parallel iterator when
\* build_global has not run
DefaultPool == [by |-> "into_par_iter", num_threads |-> 0, result |-> "Ok"]

\* manifest.restore_blobs_batch(entries_with_dest) begins: one thread per pair
RestoreBlobsBatch(backup_name, pairs) ==
    /\ workers = <<>>
    /\ clock + 1 <= MaxRestoreClock
    /\ clock' = clock + 1
    /\ IsSome(load_from(manifests[backup_name]))
    /\ Unwrap(load_from(manifests[backup_name])).entries # <<>>
    /\ pairs \in BatchPairs(Unwrap(load_from(manifests[backup_name])))
    /\ workers' = [i \in 1..Len(pairs) |->
                      [entry |-> pairs[i].entry, dest |-> pairs[i].dest, pc |-> "start",
                       data |-> "", off |-> 0, file |-> "", result |-> ""]]
    /\ last' = [NoLast EXCEPT !.op = "restore_blobs_batch", !.name = backup_name,
                              !.result = IF pairs = <<>> THEN "Ok" ELSE "running"]
    /\ pool' = IF pairs # <<>> /\ ~PoolBuilt THEN Append(pool, DefaultPool) ELSE pool
    /\ UNCHANGED <<config, threads, once, sidecars, managers, chainBlobs, manifests,
                   blobFiles, session, dests>>

BatchManifest == Unwrap(load_from(manifests[last.name]))

WorkerFrame == UNCHANGED <<config, threads, once, pool, sidecars, managers, chainBlobs,
                           manifests, blobFiles, session, clock, last>>

\* restore_blob_to up to the member search: blob lookup, base64, zstd, tar
WorkerDecode(w) ==
    /\ w \in DOMAIN workers
    /\ workers[w].pc = "start"
    /\ LET r == restore_blob_to(BatchManifest, BatchManifest.entries[workers[w].entry], None)
       IN workers' = [workers EXCEPT ![w] =
              IF r.result = "Ok"
              THEN [@ EXCEPT !.pc = "create", !.data = Unwrap(r.dest)]
              ELSE [@ EXCEPT !.pc = "done", !.result = r.result]]
    /\ dests' = dests
    /\ WorkerFrame

\* fs::File::create(&tmp): the file is created, or truncated when it exists
WorkerCreate(w) ==
    /\ w \in DOMAIN workers
    /\ workers[w].pc = "create"
    /\ dests' = [dests EXCEPT ![with_extension(workers[w].dest, "tmp.part")] = Some("")]
    /\ workers' = [workers EXCEPT ![w] =
           [@ EXCEPT !.pc = "copy", !.file = with_extension(workers[w].dest, "tmp.part")]]
    /\ WorkerFrame

\* std::io::copy: one write of the next part of the member at the offset of
\* the open file, wherever that file is now
WorkerCopy(w) ==
    /\ w \in DOMAIN workers
    /\ workers[w].pc = "copy"
    /\ LET me == workers[w]
           chunk == IF me.off = 0 THEN PartOf(me.data)
                    ELSE SubSeq(me.data, me.off + 1, Len(me.data))
       IN /\ dests' = [dests EXCEPT ![me.file] = Some(WriteAt(Unwrap(@), me.off, chunk))]
          /\ workers' = [workers EXCEPT ![w] =
                 [@ EXCEPT !.off = me.off + Len(chunk),
                           !.pc = IF me.off + Len(chunk) = Len(me.data) THEN "rename" ELSE "copy"]]
    /\ WorkerFrame

\* fs::rename(tmp, &dest): fails when tmp is gone; the threads that hold the
\* renamed file open keep it open under its new name
WorkerRename(w) ==
    /\ w \in DOMAIN workers
    /\ workers[w].pc = "rename"
    /\ LET tmp == with_extension(workers[w].dest, "tmp.part")
           dest == display(workers[w].dest)
       IN IF dests[tmp] = None
          THEN /\ dests' = dests
               /\ workers' = [workers EXCEPT ![w] =
                      [@ EXCEPT !.pc = "done", !.result = "Err(rename)"]]
          ELSE /\ dests' = [dests EXCEPT ![dest] = dests[tmp], ![tmp] = None]
               /\ workers' = [v \in DOMAIN workers |->
                      IF v = w THEN [workers[v] EXCEPT !.pc = "done", !.result = "Ok", !.file = dest]
                      ELSE IF workers[v].file = tmp THEN [workers[v] EXCEPT !.file = dest]
                      ELSE workers[v]]
    /\ WorkerFrame

\* a system call of the thread returns an I/O error
WorkerFails(w) ==
    /\ w \in DOMAIN workers
    /\ workers[w].pc \in {"create", "copy", "rename"}
    /\ workers' = [workers EXCEPT ![w] = [@ EXCEPT !.pc = "done", !.result = "Err(io)"]]
    /\ dests' = dests
    /\ WorkerFrame

\* collect(): every thread has returned; the batch returns the first error
BatchJoin ==
    /\ workers # <<>>
    /\ \A w \in DOMAIN workers : workers[w].pc = "done"
    /\ last' = [last EXCEPT !.result =
           IF \A w \in DOMAIN workers : workers[w].result = "Ok" THEN "Ok"
           ELSE workers[CHOOSE w \in DOMAIN workers :
                            /\ workers[w].result # "Ok"
                            /\ \A v \in 1..(w - 1) : workers[v].result = "Ok"].result]
    /\ workers' = <<>>
    /\ UNCHANGED <<config, threads, once, pool, sidecars, managers, chainBlobs, manifests,
                   blobFiles, session, dests, clock>>

\* the process dies during a batch
BatchCrash ==
    /\ workers # <<>>
    /\ workers' = <<>>
    /\ last' = [last EXCEPT !.result = "crash"]
    /\ UNCHANGED <<config, threads, once, pool, sidecars, managers, chainBlobs, manifests,
                   blobFiles, session, dests, clock>>

\* what the destinations hold before the first restore: the settings files
\* exist, the keymap files do not
PreviousContents ==
    [p \in RestoreFiles |->
        IF p \in {display(d) : d \in {x \in RestoreDests : x.stem = "settings"}}
        THEN Some("old") ELSE None]

InitRestore ==
    /\ InitDisk
    /\ managers = [n \in BackupNames |-> None]
    /\ chainBlobs = [n \in BackupNames |-> EmptyMap]
    /\ session = None
    /\ dests = PreviousContents
    /\ clock = 0
    /\ last = NoLast
    /\ InitRuntime

\* the config files a save_config of the model ingests
RestoredPaths ==
    {<<f, g>> : f \in {x \in SrcFiles : x.file_name = "settings.json"},
                g \in {x \in SrcFiles : x.target_hint = "app:zed"}}

\* the destinations whose write can fail
FailingDests == {None} \cup {Some(display(d)) : d \in RestoreDests \ BatchDests}

NextRestore ==
    \/ \E name \in BackupNames, paths \in RestoredPaths : SaveConfig(name, paths)
    \/ \E backup_name \in BackupNames, app_ids \in AppIdLists, installed \in InstalledSets,
          install_ok \in BOOLEAN, io_fail_at \in FailingDests :
           RestoreConfig(backup_name, app_ids, installed, install_ok, io_fail_at)

SpecRestore == InitRestore /\ [][NextRestore]_vars

NextBatch ==
    \/ \E name \in BackupNames, paths \in RestoredPaths :
           workers = <<>> /\ SaveConfig(name, paths)
    \/ \E backup_name \in BackupNames :
           \E pairs \in BatchPairs([entries |-> <<1, 2>>]) :
               RestoreBlobsBatch(backup_name, pairs)
    \/ \E w \in 1..2 : WorkerDecode(w)
    \/ \E w \in 1..2 : WorkerCreate(w)
    \/ \E w \in 1..2 : WorkerCopy(w)
    \/ \E w \in 1..2 : WorkerRename(w)
    \/ \E w \in 1..2 : WorkerFails(w)
    \/ BatchJoin
    \/ BatchCrash

SpecBatch == InitRestore /\ [][NextBatch]_vars

-----------------------------------------------------------------------------
(* Restores and their temporary files                                       *)

\* the complete contents a restore can produce: the members of the entries
CompleteContents == {Some(f.data) : f \in SrcFiles}

\* the bytes of the member the thread w restores
MemberOf(w) ==
    restore_blob_to(BatchManifest, BatchManifest.entries[workers[w].entry], None).dest

\* C23: at every moment of a restore, a crash or an I/O failure included, a
\* destination holds its previous content or the complete restored content
C23_DestPreviousOrComplete ==
    \A d \in BatchDests :
        \/ dests[display(d)] = PreviousContents[display(d)]
        \/ dests[display(d)] \in CompleteContents

\* C26: with pairwise distinct destinations no two threads of a batch write
\* the same temporary file, and when every thread succeeds every destination
\* holds the bytes of the member of its own entry
C26_BatchWorkersDisjoint ==
    /\ \A v \in DOMAIN workers : \A w \in DOMAIN workers :
           (v # w /\ workers[v].file # "" /\ workers[w].file # "")
               => with_extension(workers[v].dest, "tmp.part")
                      # with_extension(workers[w].dest, "tmp.part")
    /\ (workers # <<>> /\ \A w \in DOMAIN workers :
                              workers[w].pc = "done" /\ workers[w].result = "Ok")
           => \A w \in DOMAIN workers : dests[display(workers[w].dest)] = MemberOf(w)

-----------------------------------------------------------------------------
(* restore_config over several applications and destinations                *)

\* a step of restore_config that loaded the manifest
RestoreConfigStep ==
    /\ clock' = clock + 1
    /\ last'.op = "restore_config"
    /\ last'.result # "Err(load)"

IsRestoreEvent(e) == e[1] = "restore_blob_to"

\* C24: the first destination whose restore fails makes restore_config return
\* that error; no destination after it is written, and the destinations
\* restored before it keep their restored content
C24_FirstFailureStopsRestore ==
    [][RestoreConfigStep =>
          LET ev == last'.events
          IN \A i \in 1..Len(ev) :
                 (IsRestoreEvent(ev[i]) /\ ev[i][4] # "Ok")
                     => /\ last'.result = ev[i][4]
                        /\ \A j \in 1..(i - 1) :
                               IsRestoreEvent(ev[j])
                                   => /\ ev[j][4] = "Ok"
                                      /\ dests'[ev[j][3]] \in CompleteContents
                        /\ \A d \in RestoreDests :
                               (\A j \in 1..(i - 1) : ~(IsRestoreEvent(ev[j]) /\ ev[j][3] = display(d)))
                                   => dests'[display(d)] = dests[display(d)]]_vars

C24_Witness ==
    /\ last.op = "restore_config"
    /\ last.result = "Err(io)"
    /\ last.events = <<<<"restore_blob_to", "zed", "/home/.config/zed/settings.json", "Ok">>,
                       <<"restore_blob_to", "zed", "/home/.config/zed/keymap.json", "Err(io)">>>>
    /\ last.args[1] = <<"zed", "vscode">>
    /\ dests["/home/.config/zed/settings.json"] = Some("hello")
    /\ dests["/home/.config/zed/keymap.json"] = None
    /\ dests["/home/.config/Code/settings.json"] = Some("old")
    /\ IsSome(FindEntry(Unwrap(load_from(manifests[last.name])), "app:vscode"))

\* the applications of the registry a restore_config was asked to restore
AskedApps ==
    {i \in 1..Len(REGISTRY) : \E k \in 1..Len(last'.args[1]) : last'.args[1][k] = REGISTRY[i].id}

\* C25: for an application that is not installed and has a package id the
\* installer is invoked exactly once, with that package id, before any
\* extraction for it; for one without a package id neither the installer nor
\* an extraction runs, and no error is returned for it
C25_InstallBeforeExtraction ==
    [][RestoreConfigStep =>
          LET ev == last'.events
              installed == last'.args[2]
              Installs(app) == {i \in 1..Len(ev) : ev[i][1] = "install_app" /\ ev[i][2] = app.id}
              Restores(app) == {i \in 1..Len(ev) : IsRestoreEvent(ev[i]) /\ ev[i][2] = app.id}
          IN \A a \in AskedApps :
                 LET app == REGISTRY[a]
                 IN /\ (app.id \notin installed /\ IsSome(app.package_id))
                           => /\ Cardinality(Installs(app)) <= 1
                              /\ \A i \in Installs(app) : ev[i][3] = Unwrap(app.package_id)
                              /\ \A r \in Restores(app) :
                                     \E i \in Installs(app) : i < r /\ ev[i][4] = "Ok"
                              /\ last'.result = "Ok" => Cardinality(Installs(app)) = 1
                              /\ (\E c \in 1..Len(app.config_path) :
                                      dests'[display(app.config_path[c])]
                                          # dests[display(app.config_path[c])])
                                     => Installs(app) # {}
                    /\ (app.id \notin installed /\ ~IsSome(app.package_id))
                           => /\ Installs(app) = {}
                              /\ Restores(app) = {}
                              /\ \A c \in 1..Len(app.config_path) :
                                     dests'[display(app.config_path[c])]
                                         = dests[display(app.config_path[c])]
                              /\ (\A b \in AskedApps : b = a) => last'.result = "Ok"]_vars

C25_Witness ==
    /\ last.op = "restore_config"
    /\ last.result = "Ok"
    /\ last.args = <<<<"windows-terminal", "zed">>, {}>>
    /\ last.events[1] = <<"skip", "windows-terminal">>
    /\ last.events[2] = <<"install_app", "zed", "zed", "Ok">>
    /\ last.events[3] = <<"restore_blob_to", "zed", "/home/.config/zed/settings.json", "Ok">>
    /\ dests["/home/.config/zed/settings.json"] = Some("hello")
    /\ dests["/home/wt/LocalState/settings.json"] = Some("old")

-----------------------------------------------------------------------------
(* Manifest::new called from several threads: THREAD_POOL_INIT.call_once    *)

MaxThreads == 3
ThreadIds == 1..MaxThreads

PoolFrame == UNCHANGED <<config, workers, sidecars, managers, chainBlobs, manifests, blobFiles,
                         session, dests, clock, last>>

\* a thread calls Manifest::new, which calls init_thread_pool
ManifestNewCall(t) ==
    /\ IF t \in DOMAIN threads THEN threads[t] = "returned" ELSE TRUE
    /\ threads' = MapInsert(threads, t, "call_once")
    /\ UNCHANGED <<once, pool>>
    /\ PoolFrame

\* faulty variant of CallOnce: a thread that finds the closure running
\* returns without waiting
CallOnce_withoutWaiting(t) ==
    /\ t \in DOMAIN threads
    /\ threads[t] = "call_once"
    /\ once' = IF once = "INCOMPLETE" THEN "RUNNING" ELSE once
    /\ threads' = [threads EXCEPT ![t] =
           CASE once = "INCOMPLETE" -> "closure"
             [] once = "RUNNING" -> "returned"
             [] once = "COMPLETE" -> "returned"
             [] once = "POISONED" -> "panicked"]
    /\ pool' = pool
    /\ PoolFrame

\* Once::call_once: the first thread runs the closure, a thread that arrives
\* while it runs blocks, a thread that arrives after it returns at once, and
\* one that arrives after the closure panicked panics
CallOnce(t) ==
    /\ t \in DOMAIN threads
    /\ threads[t] = "call_once"
    /\ once' = IF once = "INCOMPLETE" THEN "RUNNING" ELSE once
    /\ threads' = [threads EXCEPT ![t] =
           CASE once = "INCOMPLETE" -> "closure"
             [] once = "RUNNING" -> "blocked"
             [] once = "COMPLETE" -> "returned"
             [] once = "POISONED" -> "panicked"]
    /\ pool' = pool
    /\ PoolFrame

\* the closure: ThreadPoolBuilder .. build_global().expect(..); build_global
\* fails when the global pool exists already, and the panic poisons the Once
BuildGlobal(t) ==
    /\ t \in DOMAIN threads
    /\ threads[t] = "closure"
    /\ pool' = Append(pool, [by |-> "build_global", num_threads |-> config.thread_count,
                             result |-> IF PoolBuilt THEN "Err" ELSE "Ok"])
    /\ once' = IF PoolBuilt THEN "POISONED" ELSE "COMPLETE"
    /\ threads' = [threads EXCEPT ![t] = IF PoolBuilt THEN "panicked" ELSE "returned"]
    /\ PoolFrame

\* a blocked thread wakes up when the closure is over
OnceWake(t) ==
    /\ t \in DOMAIN threads
    /\ threads[t] = "blocked"
    /\ once \in {"COMPLETE", "POISONED"}
    /\ threads' = [threads EXCEPT ![t] = IF once = "COMPLETE" THEN "returned" ELSE "panicked"]
    /\ UNCHANGED <<once, pool>>
    /\ PoolFrame

\* a parallel iterator of a manifest that Manifest::load_from made, which
\* does not call init_thread_pool: rayon builds its default pool when none
\* exists
ParIterOnLoadedManifest ==
    /\ ~PoolBuilt
    /\ pool' = Append(pool, DefaultPool)
    /\ UNCHANGED <<once, threads>>
    /\ PoolFrame

NextPool ==
    \/ \E t \in ThreadIds : ManifestNewCall(t)
    \/ \E t \in ThreadIds : CallOnce(t)
    \/ \E t \in ThreadIds : BuildGlobal(t)
    \/ \E t \in ThreadIds : OnceWake(t)
    \/ ParIterOnLoadedManifest

SpecPool == InitRestore /\ [][NextPool]_vars

\* C27: the pool is built exactly once per process: of the concurrent callers
\* of Manifest::new exactly one runs the build, and a caller returns only
\* after the pool is initialised
C27_PoolBuiltOnce ==
    /\ Cardinality({i \in DOMAIN pool : pool[i].result = "Ok"}) <= 1
    /\ Cardinality({i \in DOMAIN pool : pool[i].by = "build_global"}) <= 1
    /\ Cardinality({t \in DOMAIN threads : threads[t] = "closure"}) <= 1
    /\ \A t \in DOMAIN threads :
           threads[t] = "returned"
               => /\ Cardinality({i \in DOMAIN pool : pool[i].result = "Ok"}) = 1
                  /\ once = "COMPLETE"
    /\ once = "COMPLETE" => pool = <<[by |-> "build_global", num_threads |-> config.thread_count,
                                     result |-> "Ok"]>>

C27_Witness ==
    /\ DOMAIN threads = ThreadIds
    /\ \A t \in ThreadIds : threads[t] = "returned"
    /\ once = "COMPLETE"
    /\ Len(pool) = 1

-----------------------------------------------------------------------------
(* storage/performance.rs: the PerformanceConfig methods and the memory     *)
(* limit of the ingest paths, applied to configurations and file sizes      *)

\* utils::estimate_memory_usage(data_size, operation)
estimate_memory_usage(data_size, operation) ==
    CASE operation = "Compression" -> data_size * 2
      [] operation = "Decompression" -> data_size * 4
      [] operation = "TarCreation" -> data_size + (data_size \div 10)
      [] operation = "Hashing" -> 64 * 1024

\* utils::check_memory_limit(estimated_usage), self the PERFORMANCE_CONFIG:
\* estimated_usage <= max_memory_mb * 1024 * 1024, computed in whole MiB
\* (rounded up) so that no product leaves the 32-bit integers
check_memory_limit(self, estimated_usage) ==
    (estimated_usage + 1048575) \div 1048576 <= self.max_memory_mb

CpuCounts == {2, 4, 8}

\* the configurations auto_detect produces: what PERFORMANCE_CONFIG can be
DetectedConfigs == {auto_detect(c) : c \in CpuCounts}

ConfiguredLevels == {0, 1, 3, 5, 6, 7, 8, 10, 19, 22, 23}

\* the configurations the constructors produce
PerfConfigs ==
    DetectedConfigs
    \cup {fast(c) : c \in CpuCounts}
    \cup {max_compression(c) : c \in CpuCounts}
    \cup {custom(8, None, Some(mb), Some(l)) : mb \in {64, 128}, l \in ConfiguredLevels}

\* file sizes around the band edges of the adaptive level and beyond the
\* memory limit of the smallest host
FileSizes ==
    {1000, 1048576, 1048577, 10485760, 10485761, 104857600, 104857601, 1000000000}

InitPerf ==
    /\ InitDisk
    /\ managers = [n \in BackupNames |-> None]
    /\ chainBlobs = [n \in BackupNames |-> EmptyMap]
    /\ session = None
    /\ dests = PreviousContents
    /\ clock = 0
    /\ last = NoLast
    /\ config \in PerfConfigs
    /\ workers = <<>>
    /\ threads = <<>>
    /\ once = "INCOMPLETE"
    /\ pool = <<>>

PerfFrame == UNCHANGED <<runtimeVars, sidecars, managers, chainBlobs, manifests, blobFiles,
                         session, dests, clock>>

\* config.validate()
Validate ==
    /\ last' = [NoLast EXCEPT !.op = "validate", !.result = validate(config)]
    /\ PerfFrame

\* config.get_adaptive_compression_level(file_size)
GetAdaptiveCompressionLevel(file_size) ==
    /\ last' = [NoLast EXCEPT !.op = "get_adaptive_compression_level",
                              !.args = <<file_size>>,
                              !.hits = PerformanceConfig_get_adaptive_compression_level(
                                           config, file_size),
                              !.result = "Ok"]
    /\ PerfFrame

\* create_blob_from_file up to the read of a source file of file_size bytes:
\* the file is appended to the in-memory TAR without any check
ReadSingleFile(file_size) ==
    /\ config \in DetectedConfigs
    /\ last' = [NoLast EXCEPT !.op = "create_blob_from_file", !.args = <<file_size>>,
                              !.result = "Ok(read)"]
    /\ PerfFrame

\* process_files_parallel, for one file of file_size bytes under a directory:
\* the estimate for TarCreation is checked before fs::read
ReadDirectoryFile(file_size) ==
    /\ config \in DetectedConfigs
    /\ last' = [NoLast EXCEPT
           !.op = "process_files_parallel", !.args = <<file_size>>,
           !.result = IF ~check_memory_limit(config,
                                             estimate_memory_usage(file_size, "TarCreation"))
                      THEN "Err(File too large for memory limit)"
                      ELSE "Ok(read)"]
    /\ PerfFrame

NextPerf ==
    \/ Validate
    \/ \E file_size \in FileSizes : GetAdaptiveCompressionLevel(file_size)
    \/ \E file_size \in FileSizes : ReadSingleFile(file_size)
    \/ \E file_size \in FileSizes : ReadDirectoryFile(file_size)

SpecPerf == InitPerf /\ [][NextPerf]_vars

\* the estimate exceeds max_memory_mb MiB
ExceedsLimit(estimated, max_memory_mb) ==
    \/ estimated \div 1048576 > max_memory_mb
    \/ estimated \div 1048576 = max_memory_mb /\ estimated % 1048576 > 0

\* C28: an ingest that is about to read a file whose estimated peak memory
\* exceeds max_memory_mb fails with the memory-limit error instead of reading
\* it, on the single-file path and on the directory path
C28_MemoryLimitOnEveryPath ==
    (/\ last.op \in {"create_blob_from_file", "process_files_parallel"}
     /\ ExceedsLimit(last.args[1] + last.args[1] \div 10, config.max_memory_mb))
        => last.result = "Err(File too large for memory limit)"

\* C29: with adaptive compression and a level L in 1..=22 the level is L up
\* to 1 MiB, L-2 up to 10 MiB, L-4 up to 100 MiB and 6 above, and never
\* below 6 in any band
C29_AdaptiveLevelBands ==
    (/\ last.op = "get_adaptive_compression_level"
     /\ config.adaptive_compression
     /\ config.compression_level \in 1..22)
        => LET L == config.compression_level
               size == last.args[1]
               band == IF size <= 1024 * 1024 THEN L
                       ELSE IF size <= 10 * 1024 * 1024 THEN L - 2
                       ELSE IF size <= 100 * 1024 * 1024 THEN L - 4
                       ELSE 6
           IN /\ last.hits = (IF band < 6 THEN 6 ELSE band)
              /\ last.hits >= 6

\* C30: for a configuration that validate accepts, the level does not
\* increase when the file size increases
C30_LevelNonIncreasingInSize ==
    [][(/\ last.op = "get_adaptive_compression_level"
        /\ last'.op = "get_adaptive_compression_level"
        /\ validate(config) = "Ok"
        /\ last.args[1] <= last'.args[1])
           => last'.hits <= last.hits]_vars

-----------------------------------------------------------------------------
(* What the verify commands return                                          *)

IsErr(result) == Len(result) >= 3 /\ SubSeq(result, 1, 3) = "Err"

\* the faults a verify command may report as an error: a manifest that
\* cannot be read or decoded, a reference no stored manifest carries, a cycle
VerifyFaults == {"Err(load)", "Err(BrokenChain)", "Err(CycleError)"}

\* C31: a verify operation reports an integrity violation as the answer
\* false and returns an error only for an I/O or structural fault
C31_VerifyErrsOnlyOnFaults ==
    (last.op \in {"verify_backup_integrity", "verify_backup_chain"} /\ IsErr(last.result))
        => last.result \in VerifyFaults

-----------------------------------------------------------------------------
(* restore_blob_to on a manifest.json that was damaged outside the program  *)

\* what can be wrong with the blob or the entry restore_blob_to is given
Damages == {"blob removed", "format", "base64", "zstd", "tar_member"}

\* the manifest with entry i, or the blob it names, damaged
Damaged(manifest, i, kind) ==
    LET entry == manifest.entries[i]
        id == entry.blob_id
        blob == manifest.blobs[id]
    IN IF kind = "blob removed"
       THEN [manifest EXCEPT !.blobs = [b \in (DOMAIN manifest.blobs) \ {id} |-> manifest.blobs[b]]]
       ELSE IF kind = "format"
       THEN [manifest EXCEPT !.blobs[id] = [blob EXCEPT !.format = "zip"]]
       ELSE IF kind = "base64"
       THEN [manifest EXCEPT !.blobs[id] = [blob EXCEPT !.b64 = "%%"]]
       ELSE IF kind = "zstd"
       THEN [manifest EXCEPT !.blobs[id] = [blob EXCEPT !.b64 = Base64Encode("data1")]]
       ELSE [manifest EXCEPT !.entries[i] = [entry EXCEPT !.tar_member = Some("absent.json")]]

\* manifest.json of a stored backup is rewritten with a damaged entry or blob
DamageManifest(name, i, kind) ==
    /\ name \in StoredSnapshots
    /\ i \in 1..Len(StoredManifest(name).entries)
    /\ StoredManifest(name).entries[i].blob_id \in DOMAIN StoredManifest(name).blobs
    /\ clock < MaxSaveClock
    /\ clock' = clock + 1
    /\ manifests' = [manifests EXCEPT ![name] =
           Some(manifest_to_json(Damaged(StoredManifest(name), i, kind)))]
    /\ last' = [NoLast EXCEPT !.op = "damage", !.name = name]
    /\ UNCHANGED <<runtimeVars, sidecars, managers, chainBlobs, blobFiles, session, dests>>

NextDamaged ==
    \/ \E name \in SnapshotNames, paths \in AppPaths : SaveConfig(name, paths)
    \/ \E name \in SnapshotNames, i \in 1..MaxSaveClock, kind \in Damages :
           DamageManifest(name, i, kind)
    \/ \E name \in SnapshotNames, i \in 1..MaxSaveClock, dest_path \in DestPaths :
           RestoreBlobTo(name, i, dest_path)

SpecDamaged == InitBackups /\ [][NextDamaged]_vars

\* the errors of restore_blob_to that come from the manifest, not from
\* writing the destination
RestoreErrors ==
    {"Err(blob_id not in manifest)", "Err(unknown format)", "Err(base64)", "Err(zstd)",
     "Err(member not found)"}

\* C32: a restore_blob_to that returns one of these errors leaves the file
\* at the destination path as it was before the call, content or absence
C32_FailedRestoreLeavesDest ==
    [][(last'.op = "restore_blob_to" /\ last'.result \in RestoreErrors)
           => dests'[last'.dest] = dests[last'.dest]]_vars

\* a failed restore over a destination that an earlier restore had written
C32_Witness ==
    /\ last.op = "restore_blob_to"
    /\ last.result = "Err(member not found)"
    /\ IsSome(dests[last.dest])

-----------------------------------------------------------------------------
(* The blob chain of a snapshot that is being built                         *)

IngestOps ==
    {"create_blob_from_file", "create_blob_from_directory", "create_blobs_from_files_batch"}

\* Manifest::verify_blob_chain_integrity on the manifest save_config holds
verify_blob_chain_integrity(manifest) ==
    verify_blob_chain(ChainInfoOf(manifest), manifest.blobs)

\* C33: after every successful ingest into the snapshot that save_config is
\* building, verify_blob_chain_integrity on its manifest returns true
C33_IngestedSnapshotVerifies ==
    (IsSome(session) /\ last.op \in IngestOps /\ last.result = "Ok")
        => verify_blob_chain_integrity(Unwrap(session)) = "Ok(true)"

-----------------------------------------------------------------------------
(* The index of the blob chain                                              *)

\* blob_positions is the reverse index of chain_order (positions 0-based),
\* and the two maps and chain_order hold the same ids
ReverseIndex(metadata) ==
    /\ Distinct(metadata.chain_order)
    /\ \A id \in DOMAIN metadata.blob_positions :
           /\ metadata.blob_positions[id] + 1 \in 1..Len(metadata.chain_order)
           /\ metadata.chain_order[metadata.blob_positions[id] + 1] = id
    /\ DOMAIN metadata.blob_positions = {metadata.chain_order[i] : i \in 1..Len(metadata.chain_order)}
    /\ DOMAIN metadata.blob_chain_hashes = DOMAIN metadata.blob_positions

\* C34: in every state of a manager and of a sidecar file that loads,
\* blob_positions is the exact reverse index of chain_order
C34_PositionsReverseIndex ==
    \A name \in BackupNames :
        /\ IsSome(managers[name]) => ReverseIndex(Unwrap(managers[name]))
        /\ IsSome(load_metadata(sidecars[get_metadata_path(name)]))
               => ReverseIndex(Unwrap(load_metadata(sidecars[get_metadata_path(name)])))

-----------------------------------------------------------------------------
(* add_blob_to_chain over a sidecar file that does not load                 *)

\* the sidecar file of the name exists and load_metadata fails on it
Unloadable(name) ==
    /\ IsSome(sidecars[get_metadata_path(name)])
    /\ ~IsSome(load_metadata(sidecars[get_metadata_path(name)]))

\* C35: an add_blob_to_chain on a snapshot whose sidecar file exists but
\* does not load does not replace the file with a chain that holds only the
\* new blob
C35_UnloadableSidecarKept ==
    [][\A name \in BackupNames :
          (/\ Unloadable(name)
           /\ last'.op = "add_blob_to_chain" /\ last'.name = name /\ last'.result = "Ok")
              => ChainOrderOnDisk(sidecars', name) # <<last'.id>>]_vars

-----------------------------------------------------------------------------
(* restore_config on a snapshot with several entries of one application     *)

\* path.file_name()
file_name(path) == path.stem \o "." \o path.extension

\* the entries of the manifest that were saved from the config file of the
\* application that dest names
EntriesSavedFrom(manifest, app, dest) ==
    {manifest.entries[k] : k \in {i \in 1..Len(manifest.entries) :
        /\ manifest.entries[i].target_hint = app.target_hint
        /\ manifest.entries[i].tar_member = Some(file_name(dest))}}

\* the applications a restore_config that returned Ok has restored
RestoredApps ==
    {i \in 1..Len(REGISTRY) :
        /\ \E k \in 1..Len(last.args[1]) : last.args[1][k] = REGISTRY[i].id
        /\ REGISTRY[i].id \in last.args[2] \/ IsSome(REGISTRY[i].package_id)}

\* C36: after a restore_config that succeeded, every config file of a
\* restored application for which the snapshot holds an entry has the bytes
\* of the entry saved from that file, also when the application has several
\* entries with the same target_hint
C36_EachDestOwnEntry ==
    (last.op = "restore_config" /\ last.result = "Ok")
        => \A a \in RestoredApps :
               \A j \in 1..Len(REGISTRY[a].config_path) :
                   \A e \in EntriesSavedFrom(StoredManifest(last.name), REGISTRY[a],
                                             REGISTRY[a].config_path[j]) :
                       dests[display(REGISTRY[a].config_path[j])] = Some(SourceBytes(e.logical_path))

-----------------------------------------------------------------------------
(* The shape of the snapshot chain that save_config builds                  *)

\* C37: the snapshots save_config has stored form one linear chain: at most
\* one has no previous_backup_hash, no two have the same previous_backup_hash,
\* and every previous_backup_hash is the backup_chain_hash of a stored one
C37_SnapshotsFormOneChain ==
    /\ \A m, n \in StoredSnapshots :
           (/\ ~IsSome(StoredManifest(m).previous_backup_hash)
            /\ ~IsSome(StoredManifest(n).previous_backup_hash)) => m = n
    /\ \A m, n \in StoredSnapshots :
           (/\ IsSome(StoredManifest(m).previous_backup_hash)
            /\ StoredManifest(m).previous_backup_hash = StoredManifest(n).previous_backup_hash)
               => m = n
    /\ \A n \in StoredSnapshots :
           IsSome(StoredManifest(n).previous_backup_hash)
               => Resolves(StoredManifest(n).previous_backup_hash)

-----------------------------------------------------------------------------
(* A crash while an ingest writes the blob file: the file is written in     *)
(* place with fs::write, behind a test that the path does not exist         *)

\* create_blob_from_file interrupted by a crash of the process inside
\* fs::write(&blob_path, &compressed): the manifest in memory is gone, the
\* sidecar is not yet touched
CreateBlobFromFileCrash(f) ==
    /\ IsSome(session)
    /\ clock < MaxClock
    /\ clock' = clock + 1
    /\ LET compressed == adaptive_compress(TarBytes(TarOfFile(f)))
           name == Unwrap(session).name
       IN /\ ~IsSome(find_existing_blob_across_backups(SHA256(compressed)))
          /\ SHA256(compressed) \notin DOMAIN blobFiles[name]
          /\ \E found \in WriteInterrupted(compressed) :
                 blobFiles' = [blobFiles EXCEPT ![name] = MapInsert(@, SHA256(compressed), found)]
          /\ last' = [NoLast EXCEPT !.op = "create_blob_from_file", !.name = name,
                                    !.id = SHA256(compressed), !.path = f.path,
                                    !.result = "crash"]
    /\ session' = None
    /\ UNCHANGED <<runtimeVars, sidecars, managers, chainBlobs, manifests, dests>>

NextBlobCrash ==
    \/ \E name \in BackupNames : SaveConfigBegin(name)
    \/ \E f \in SrcFiles : CreateBlobFromFile(f)
    \/ \E f \in SrcFiles : CreateBlobFromFileCrash(f)
    \/ SaveConfigFinish

SpecBlobCrash == Init /\ [][NextBlobCrash]_vars

\* C38: a blob file that an ingest finds at the path of its blob, and
\* therefore does not write, holds bytes whose SHA-256 is the blob id
C38_SkippedBlobFileIsWhole ==
    [][(/\ last'.op = "create_blob_from_file"
        /\ last'.result = "Ok"
        /\ last'.hits = 0
        /\ last'.id \in DOMAIN blobFiles[last'.name])
           => SHA256(blobFiles'[last'.name][last'.id]) = last'.id]_vars

====
